---- MODULE Spec2Model ----
(***************************************************************************)
(* Model of the gpiod line-value and line-request encoding layer.          *)
(*                                                                         *)
(* Unsigned integers are modelled as bit vectors: an integer of width w is *)
(* the set of the positions (0 = least significant) of its set bits, so    *)
(* that 64-bit values keep their width exactly.  `checks` is the build     *)
(* profile: with overflow checks compiled in, an overflowing shift or      *)
(* subtraction panics; without them it wraps.                              *)
(***************************************************************************)
EXTENDS Integers, Sequences, FiniteSets, TLC

VARIABLES
    checks,     \* TRUE: overflow checks are compiled in (debug profile)
    values,     \* the value container a call acts on: [w, bits, mask]
    lines,      \* the line offsets of a request
    map,        \* the LineMap built from them: its Vec<BitId>, from index 0
    ret,        \* the last call: its name, its arguments and what it returned
    front       \* an async front end: its handle, descriptor, futures, tasks

vars == <<checks, values, lines, map, ret, front>>

(***************************************************************************)
(* Bounds of the model                                                     *)
(***************************************************************************)
MaxLow == 2         \* the receivers use bit positions 0..MaxLow-1 and w-1
MaxHead == 1        \* free leading part of a text or of a boolean sequence
MaxOffset == 3      \* short line lists use the offsets 0..MaxOffset
MaxLines == 3       \* length of the short line lists
MaxCalls == 2       \* calls made on one handle of an async front end

(***************************************************************************)
(* Integer helpers                                                         *)
(***************************************************************************)
Max(S) == CHOOSE x \in S : \A y \in S : y <= x

MaxOf(a, b) == IF a >= b THEN a ELSE b

MinOf(a, b) == IF a <= b THEN a ELSE b

\* the element of a one-element set; {F(v) : v \in {e}} computes e before
\* F, which keeps the evaluation of a long loop flat
Eval(S) == CHOOSE v \in S : TRUE

\* u8::MAX + 1: BitId is u8, `as BitId` keeps the low 8 bits
BitIdRange == 256

AsBitId(n) == n % BitIdRange

\* u32::MAX is not representable; the wrapped counter of `extend` only needs
\* to stay positive for the rest of the iteration
U32Wrapped == 1000000

\* the low n positions: (1 << n) - 1
LowBits(n) == 0 .. (n - 1)

\* a | b, a & b and a & !b of bit vectors, as enumerated sets
BitOr(a, b) == {i : i \in a \cup b}

BitAnd(a, b) == {i : i \in a \cap b}

BitAndNot(a, b) == {i : i \in a \ b}

\* x.leading_zeros() of a w-bit integer
LeadingZeros(x, w) == IF x = {} THEN w ELSE w - 1 - Max(x)

\* x << 1 of a w-bit integer (bits shifted out are lost)
Shl1(x, w) == {i + 1 : i \in x \ {w - 1}}

\* x >> n
Shr(x, n) == {i - n : i \in {j \in x : j >= n}}

\* x >> n of a w-bit integer: with overflow checks n >= w panics, without
\* them the shift amount is taken modulo w
ShrChecked(x, n, w) == [panic |-> checks /\ n >= w, val |-> Shr(x, n % w)]

\* 1 << n of a w-bit integer: with overflow checks n >= w panics, without them
\* the shift amount is taken modulo w
ShlOne(n, w) == [panic |-> checks /\ n >= w, val |-> {n % w}]

(***************************************************************************)
(* Option<bool> and the outcomes of a call                                 *)
(***************************************************************************)
None == "None"

Some(b) == IF b THEN "Some(true)" ELSE "Some(false)"

Panic == "panic"

OptBool == {None, Some(TRUE), Some(FALSE)}

(***************************************************************************)
(* core/src/types.rs: Values                                               *)
(***************************************************************************)
MAX == 64

Default(w) == [w |-> w, bits |-> {}, mask |-> {}]

\* Values::get
ValuesGet(self, bit) ==
    IF bit > AsBitId(MAX) THEN None
    ELSE LET mask == ShlOne(bit, MAX) IN
         IF mask.panic THEN Panic
         ELSE IF self.mask \cap mask.val = {} THEN None
         ELSE Some(self.bits \cap mask.val # {})

\* Values::set: the container after the call, and whether the call panicked
ValuesSet(self, bit, val) ==
    IF bit > AsBitId(MAX) THEN [panic |-> FALSE, self |-> self]
    ELSE LET mask == ShlOne(bit, MAX) IN
         IF mask.panic THEN [panic |-> TRUE, self |-> self]
         ELSE [panic |-> FALSE,
               self |-> [self EXCEPT
                   !.mask = self.mask \cup mask.val,
                   !.bits = IF val THEN self.bits \cup mask.val
                                   ELSE self.bits \ mask.val]]

\* the character Display writes for what get returned
BitChar(got) ==
    IF got = Some(TRUE) THEN "1" ELSE IF got = Some(FALSE) THEN "0" ELSE "x"

\* Display for Values with the length Masked<T> uses: up to the highest bit
\* set in both bits and mask
ValuesFmtSignificant(self) ==
    LET max == MaxOf(AsBitId(MAX) -
                     AsBitId(LeadingZeros(BitAnd(self.mask, self.bits), MAX)), 1)
    IN  <<"0", "b">> \o [k \in 1 .. max |-> BitChar(ValuesGet(self, max - k))]

\* impl fmt::Display for Values: the text written
ValuesFmt(self) ==
    LET max == MaxOf(AsBitId(MAX) - AsBitId(LeadingZeros(self.mask, MAX)), 1)
    IN  <<"0", "b">> \o [k \in 1 .. max |-> BitChar(ValuesGet(self, max - k))]

\* s.strip_prefix("0b").unwrap_or(s)
StripPrefix(s) ==
    IF Len(s) >= 2 /\ s[1] = "0" /\ s[2] = "b" THEN SubSeq(s, 3, Len(s))
    ELSE s

\* the loop body of Values::from_str where '0' leaves the mask bit clear
ValuesFromStrStepUnmasked(st, c) ==
    IF st.err THEN st
    ELSE LET i == st.i - 1
             b == {i}
         IN  IF c = "1"
             THEN [st EXCEPT !.i = i, !.bits = BitOr(st.bits, b),
                             !.mask = BitOr(st.mask, b)]
             ELSE IF c = "0" \/ c = "x"
             THEN [st EXCEPT !.i = i]
             ELSE [st EXCEPT !.i = i, !.err = TRUE]

\* one pass of the loop body of Values::from_str; err: the loop was left by
\* `return Err`
ValuesFromStrStep(st, c) ==
    IF st.err THEN st
    ELSE LET i == st.i - 1
             b == {i}
         IN  IF c = "1"
             THEN [st EXCEPT !.i = i, !.bits = BitOr(st.bits, b),
                             !.mask = BitOr(st.mask, b)]
             ELSE IF c = "0"
             THEN [st EXCEPT !.i = i, !.mask = BitOr(st.mask, b)]
             ELSE IF c = "x"
             THEN [st EXCEPT !.i = i]
             ELSE [st EXCEPT !.i = i, !.err = TRUE]

\* the loop of Values::from_str over s[lo..hi], in two halves
RECURSIVE ValuesFromStrLoop(_, _, _, _)
ValuesFromStrLoop(st, s, lo, hi) ==
    IF lo > hi THEN st
    ELSE IF lo = hi THEN ValuesFromStrStep(st, s[lo])
    ELSE LET mid == (lo + hi) \div 2 IN
         Eval({ValuesFromStrLoop(left, s, mid + 1, hi) :
                  left \in {ValuesFromStrLoop(st, s, lo, mid)}})

\* impl str::FromStr for Values
ValuesFromStr(text) ==
    LET s == StripPrefix(text)
        i == Len(s)
    IN  IF i > MAX THEN [status |-> "InvalidInput", self |-> Default(MAX)]
        ELSE LET st == ValuesFromStrLoop(
                           [err |-> FALSE, i |-> i, bits |-> {}, mask |-> {}],
                           s, 1, Len(s))
             IN  IF st.err
                 THEN [status |-> "InvalidInput", self |-> Default(MAX)]
                 ELSE [status |-> "Ok",
                       self |-> [w |-> MAX, bits |-> st.bits, mask |-> st.mask]]

\* values_conv!: impl From<$type> for Values, $type of width w
ValuesFromInt(bits, w) == [w |-> MAX, bits |-> bits, mask |-> LowBits(w)]

\* values_conv!: impl From<Values> for $type, $type of width w
ValuesIntoInt(self, w) == BitAnd(BitAnd(self.bits, self.mask), LowBits(w))

\* one pass of the loop body of Extend::extend; `vacant -= 1` runs for every
\* item, also when no bit is vacant, and a u32 cannot go below 0
ExtendStep(st, value) ==
    IF st.panic THEN st
    ELSE LET self == st.self
             shifted ==
                 IF st.vacant > 0
                 THEN [self EXCEPT
                          !.bits = BitOr(Shl1(self.bits, MAX),
                                         IF value THEN {0} ELSE {}),
                          !.mask = BitOr(Shl1(self.mask, MAX), {0})]
                 ELSE self
         IN  IF st.vacant = 0
             THEN [panic |-> checks, self |-> shifted, vacant |-> U32Wrapped]
             ELSE [panic |-> FALSE, self |-> shifted, vacant |-> st.vacant - 1]

\* the loop of Extend::extend over items[lo..hi], in two halves
RECURSIVE ExtendLoop(_, _, _, _)
ExtendLoop(st, items, lo, hi) ==
    IF lo > hi THEN st
    ELSE IF lo = hi THEN ExtendStep(st, items[lo])
    ELSE LET mid == (lo + hi) \div 2 IN
         Eval({ExtendLoop(left, items, mid + 1, hi) :
                  left \in {ExtendLoop(st, items, lo, mid)}})

\* impl Extend<bool> for Values
ValuesExtend(self, items) ==
    LET st == ExtendLoop([panic |-> FALSE, self |-> self,
                          vacant |-> LeadingZeros(self.mask, MAX)],
                         items, 1, Len(items))
    IN  [panic |-> st.panic, self |-> st.self]

\* one pass of the loop body of FromIterator::from_iter; brk: the loop was
\* left by `break`
FromIterStep(st, bit) ==
    IF st.brk THEN st
    ELSE LET i == st.i - 1
             self == st.self
         IN  [self |-> [self EXCEPT
                           !.bits = IF bit THEN BitOr(self.bits, {i})
                                    ELSE self.bits,
                           !.mask = BitOr(self.mask, {i})],
              i |-> i,
              brk |-> i = 0]

\* the loop of FromIterator::from_iter over items[lo..hi], in two halves
RECURSIVE FromIterLoop(_, _, _, _)
FromIterLoop(st, items, lo, hi) ==
    IF lo > hi THEN st
    ELSE IF lo = hi THEN FromIterStep(st, items[lo])
    ELSE LET mid == (lo + hi) \div 2 IN
         Eval({FromIterLoop(left, items, mid + 1, hi) :
                  left \in {FromIterLoop(st, items, lo, mid)}})

\* impl FromIterator<bool> for Values
ValuesFromIter(items) ==
    LET r == FromIterLoop([self |-> Default(MAX), i |-> MAX, brk |-> FALSE],
                          items, 1, Len(items))
    IN  IF r.i > 0
        THEN LET b == ShrChecked(r.self.bits, r.i, MAX)
                 m == ShrChecked(r.self.mask, r.i, MAX)
             IN  [panic |-> b.panic,
                  self |-> [r.self EXCEPT !.bits = b.val, !.mask = m.val]]
        ELSE [panic |-> FALSE, self |-> r.self]

\* impl IntoIterator for Values: the iterator it returns
ValuesIntoIter(self) ==
    [bits |-> self.bits,
     i |-> AsBitId(MAX) - AsBitId(LeadingZeros(self.mask, MAX))]

\* ValuesIter::next: the item it returns and the iterator after the call
ValuesIterNext(it) ==
    IF it.i = 0 THEN [item |-> None, it |-> it]
    ELSE [item |-> Some((it.i - 1) \in it.bits),
          it |-> [it EXCEPT !.i = it.i - 1]]

\* the items ValuesIter::next yields until it returns None: call k is made
\* on the iterator with i lowered k-1 times
ValuesIterCollect(it) ==
    [k \in 1 .. it.i |->
        ValuesIterNext([it EXCEPT !.i = it.i - (k - 1)]).item = Some(TRUE)]

(***************************************************************************)
(* core/src/types.rs: LineMap                                              *)
(***************************************************************************)
\* LineMap::NOT_LINE
NOT_LINE == AsBitId(MAX)

\* the largest element of a sequence of offsets, 0 when it is empty
MaxOrZero(ls) == IF Len(ls) = 0 THEN 0 ELSE Max({ls[i] : i \in 1 .. Len(ls)})

\* a pass that stores the position counted from 1
LineMapSetOneBased(m, ls, i) == [m EXCEPT ![ls[i + 1]] = AsBitId(i + 1)]

\* one pass of the loop of LineMap::new: map[lines[i]] = i as BitId, where
\* i counts from 0 (the sequence ls counts from 1)
LineMapSet(m, ls, i) == [m EXCEPT ![ls[i + 1]] = AsBitId(i)]

\* the loop of LineMap::new for i in lo..=hi, in two halves
RECURSIVE LineMapLoop(_, _, _, _)
LineMapLoop(m, ls, lo, hi) ==
    IF lo > hi THEN m
    ELSE IF lo = hi THEN LineMapSet(m, ls, lo)
    ELSE LET mid == (lo + hi) \div 2 IN
         Eval({LineMapLoop(left, ls, mid + 1, hi) :
                  left \in {LineMapLoop(m, ls, lo, mid)}})

\* LineMap::new
LineMapNew(ls) ==
    LineMapLoop([o \in 0 .. MaxOrZero(ls) |-> NOT_LINE], ls, 0, Len(ls) - 1)

\* the length of the Vec of a LineMap
MapLen(m) == Cardinality(DOMAIN m)

\* LineMap::get without the test for NOT_LINE: an offset inside the map that
\* no line set resolves to NOT_LINE
LineMapGetUnchecked(m, line) ==
    IF line < MapLen(m)
    THEN [status |-> "Ok", val |-> m[line]]
    ELSE [status |-> "InvalidData", val |-> NOT_LINE]

\* LineMap::get
LineMapGet(m, line) ==
    IF line < MapLen(m) /\ m[line] # NOT_LINE
    THEN [status |-> "Ok", val |-> m[line]]
    ELSE [status |-> "InvalidData", val |-> NOT_LINE]

(***************************************************************************)
(* core/src/utils.rs                                                       *)
(***************************************************************************)
\* size_of::<LineId>(): LineId is u32
LineIdSize == 4

\* check_len(slice, val): `size` is size_of_val(val), which counts bytes
CheckLen(len, size) == IF len <= size THEN "Ok" ELSE "InvalidInput"

\* check_len_str that lets a text as long as the field pass, leaving no room
\* for the NUL byte
CheckLenStrInclusive(len, size) == IF len <= size THEN "Ok" ELSE "InvalidInput"

\* check_len_str(slice, val)
CheckLenStr(len, size) == IF len < size THEN "Ok" ELSE "InvalidInput"

\* safe_set_str(dst, src) for dst: [u8; N]: the status and dst after the call;
\* a byte of the text is its character, the NUL byte is 0
SafeSetStr(dst, src) ==
    IF CheckLenStr(Len(src), Len(dst)) # "Ok"
    THEN [status |-> "InvalidInput", dst |-> dst]
    ELSE [status |-> "Ok",
          dst |-> [k \in 1 .. Len(dst) |->
                      IF k <= Len(src) THEN src[k]
                      ELSE IF k = Len(src) + 1 THEN 0
                      ELSE dst[k]]]

(***************************************************************************)
(* core/src/raw.rs: the request structures                                 *)
(***************************************************************************)
\* GPIO_V2_LINES_MAX and GPIOHANDLES_MAX: the length of the offsets array
LINES_MAX == 64

\* GPIO_MAX_NAME_SIZE: the length of the consumer field
NAME_SIZE == 32

\* GPIO_LINE_FLAG_EDGE_BOTH: both edge flags
GPIO_LINE_FLAG_EDGE_BOTH == {"EDGE_RISING", "EDGE_FALLING"}

\* GpioLineRequest::default() and GpioHandleRequest::default(): all zero
DefaultRequest ==
    [num_lines |-> 0,
     offsets |-> [k \in 1 .. LINES_MAX |-> 0],
     flags |-> {},
     num_attrs |-> 0,
     attr |-> [id |-> "none", mask |-> {}, values |-> {}],
     consumer |-> [k \in 1 .. NAME_SIZE |-> 0]]

(***************************************************************************)
(* core/src/iop/v2.rs and core/src/iop/v1.rs: the request encoders         *)
(***************************************************************************)
\* request.offsets[..lines.len()].copy_from_slice(lines); the slice index
\* panics when lines.len() is more than the array holds
CopyOffsets(offsets, ls) ==
    IF Len(ls) > Len(offsets) THEN [panic |-> TRUE, offsets |-> offsets]
    ELSE [panic |-> FALSE,
          offsets |-> [k \in 1 .. Len(offsets) |->
                          IF k <= Len(ls) THEN ls[k] ELSE offsets[k]]]

\* the flags of a request that sets the input flag for every direction and
\* the output flag on top of it
LineRequestFlagsMixed(direction, active, edge, bias, drive) ==
    {"INPUT"}
    \cup (IF direction = "Output" THEN {"OUTPUT"} ELSE {})
    \cup (IF active = "Low" THEN {"ACTIVE_LOW"} ELSE {})
    \cup (IF bias = "PullUp" THEN {"BIAS_PULL_UP"}
          ELSE IF bias = "PullDown" THEN {"BIAS_PULL_DOWN"}
          ELSE IF bias = "Disable" THEN {"BIAS_DISABLED"}
          ELSE {})

\* the flags GpioLineRequest::new composes
LineRequestFlags(direction, active, edge, bias, drive) ==
    (IF direction = "Input" THEN {"INPUT"} ELSE {"OUTPUT"})
    \cup (IF active = "Low" THEN {"ACTIVE_LOW"} ELSE {})
    \cup (IF direction = "Input"
          THEN IF edge = "Rising" THEN {"EDGE_RISING"}
               ELSE IF edge = "Falling" THEN {"EDGE_FALLING"}
               ELSE IF edge = "Both" THEN GPIO_LINE_FLAG_EDGE_BOTH
               ELSE {}
          ELSE {})
    \cup (IF bias = "PullUp" THEN {"BIAS_PULL_UP"}
          ELSE IF bias = "PullDown" THEN {"BIAS_PULL_DOWN"}
          ELSE IF bias = "Disable" THEN {"BIAS_DISABLED"}
          ELSE {})
    \cup (IF direction = "Output"
          THEN IF drive = "OpenDrain" THEN {"OPEN_DRAIN"}
               ELSE IF drive = "OpenSource" THEN {"OPEN_SOURCE"}
               ELSE {}
          ELSE {})

\* GpioLineRequest::new attaching the values attribute for every direction
GpioLineRequestNewAttachAlways(ls, direction, active, edge, bias, drive, vals, consumer) ==
    LET request == DefaultRequest
        size == Len(request.offsets) * LineIdSize
    IN  IF CheckLen(Len(ls), size) # "Ok"
        THEN [status |-> "InvalidInput", request |-> <<>>]
        ELSE LET copied == CopyOffsets(request.offsets, ls)
                 str == SafeSetStr(request.consumer, consumer)
                 attached == vals # <<>>
             IN  IF copied.panic
                 THEN [status |-> Panic, request |-> <<>>]
                 ELSE IF str.status # "Ok"
                 THEN [status |-> str.status, request |-> <<>>]
                 ELSE [status |-> "Ok",
                       request |-> <<
                           [num_lines |-> Len(ls),
                            offsets |-> copied.offsets,
                            flags |-> LineRequestFlags(direction, active, edge,
                                                       bias, drive),
                            num_attrs |-> IF attached THEN 1 ELSE 0,
                            attr |-> IF attached
                                     THEN [id |-> "OUTPUT_VALUES",
                                           mask |-> vals[1].mask,
                                           values |-> vals[1].bits]
                                     ELSE request.attr,
                            consumer |-> str.dst] >>]

\* GpioLineRequest::new (generation 2); an absent edge, bias or drive is
\* "None", absent values are <<>>; the Result is its status and <<request>>,
\* or <<>> when no request is returned
GpioLineRequestNew(ls, direction, active, edge, bias, drive, vals, consumer) ==
    LET request == DefaultRequest
        size == Len(request.offsets) * LineIdSize
    IN  IF CheckLen(Len(ls), size) # "Ok"
        THEN [status |-> "InvalidInput", request |-> <<>>]
        ELSE LET copied == CopyOffsets(request.offsets, ls)
                 str == SafeSetStr(request.consumer, consumer)
                 attached == direction = "Output" /\ vals # <<>>
             IN  IF copied.panic
                 THEN [status |-> Panic, request |-> <<>>]
                 ELSE IF str.status # "Ok"
                 THEN [status |-> str.status, request |-> <<>>]
                 ELSE [status |-> "Ok",
                       request |-> <<
                           [num_lines |-> Len(ls),
                            offsets |-> copied.offsets,
                            flags |-> LineRequestFlags(direction, active, edge,
                                                       bias, drive),
                            num_attrs |-> IF attached THEN 1 ELSE 0,
                            attr |-> IF attached
                                     THEN [id |-> "OUTPUT_VALUES",
                                           mask |-> vals[1].mask,
                                           values |-> vals[1].bits]
                                     ELSE request.attr,
                            consumer |-> str.dst] >>]

\* the flags of a handle request that translates drive for every direction
HandleRequestFlagsDriveAlways(direction, active, bias, drive) ==
    (IF direction = "Input" THEN {"INPUT"} ELSE {"OUTPUT"})
    \cup (IF active = "Low" THEN {"ACTIVE_LOW"} ELSE {})
    \cup (IF bias = "PullUp" THEN {"BIAS_PULL_UP"}
          ELSE IF bias = "PullDown" THEN {"BIAS_PULL_DOWN"}
          ELSE IF bias = "Disable" THEN {"BIAS_DISABLED"}
          ELSE {})
    \cup (IF drive = "OpenDrain" THEN {"OPEN_DRAIN"}
          ELSE IF drive = "OpenSource" THEN {"OPEN_SOURCE"}
          ELSE {})

\* the flags GpioHandleRequest::new composes
HandleRequestFlags(direction, active, bias, drive) ==
    (IF direction = "Input" THEN {"INPUT"} ELSE {"OUTPUT"})
    \cup (IF active = "Low" THEN {"ACTIVE_LOW"} ELSE {})
    \cup (IF bias = "PullUp" THEN {"BIAS_PULL_UP"}
          ELSE IF bias = "PullDown" THEN {"BIAS_PULL_DOWN"}
          ELSE IF bias = "Disable" THEN {"BIAS_DISABLED"}
          ELSE {})
    \cup (IF direction = "Output"
          THEN IF drive = "OpenDrain" THEN {"OPEN_DRAIN"}
               ELSE IF drive = "OpenSource" THEN {"OPEN_SOURCE"}
               ELSE {}
          ELSE {})

\* GpioHandleRequest::new (generation 1); an absent option is "None";
\* num_lines, offsets and consumer stand for the fields lines, line_offsets
\* and consumer_label
GpioHandleRequestNew(ls, direction, active, bias, drive, consumer) ==
    LET request == DefaultRequest
        size == Len(request.offsets) * LineIdSize
    IN  IF CheckLen(Len(ls), size) # "Ok"
        THEN [status |-> "InvalidInput", request |-> <<>>]
        ELSE LET copied == CopyOffsets(request.offsets, ls)
                 str == SafeSetStr(request.consumer, consumer)
             IN  IF copied.panic
                 THEN [status |-> Panic, request |-> <<>>]
                 ELSE IF str.status # "Ok"
                 THEN [status |-> str.status, request |-> <<>>]
                 ELSE [status |-> "Ok",
                       request |-> <<
                           [request EXCEPT
                               !.num_lines = Len(ls),
                               !.offsets = copied.offsets,
                               !.flags = HandleRequestFlags(direction, active,
                                                            bias, drive),
                               !.consumer = str.dst] >>]

(***************************************************************************)
(* src/lib.rs (crate gpiod): Chip::request_output and Chip::request_input  *)
(***************************************************************************)
\* request.offsets.copy_from_slice(line_offsets): the whole array is the
\* destination, and copy_from_slice panics unless both lengths are equal
CopyFromSlice(offsets, ls) ==
    IF Len(ls) # Len(offsets) THEN [panic |-> TRUE, offsets |-> offsets]
    ELSE [panic |-> FALSE, offsets |-> [k \in 1 .. Len(offsets) |-> ls[k]]]

\* the flags both methods compose from active
TopActiveFlags(active) == IF active = "Low" THEN {"ACTIVE_LOW"} ELSE {}

\* the flags both methods compose from edge under feature v2, whatever the
\* direction
TopEdgeFlags(edge) ==
    IF edge = "Rising" THEN {"EDGE_RISING"}
    ELSE IF edge = "Falling" THEN {"EDGE_FALLING"}
    ELSE IF edge = "Both" THEN GPIO_LINE_FLAG_EDGE_BOTH
    ELSE {}

\* the flags both methods compose from bias
TopBiasFlags(bias) ==
    IF bias = "PullUp" THEN {"BIAS_PULL_UP"}
    ELSE IF bias = "PullDown" THEN {"BIAS_PULL_DOWN"}
    ELSE {"BIAS_DISABLED"}

\* the flags request_output composes from drive
TopDriveFlags(drive) ==
    IF drive = "OpenDrain" THEN {"OPEN_DRAIN"}
    ELSE IF drive = "OpenSource" THEN {"OPEN_SOURCE"}
    ELSE {}

\* the flags of Chip::request_output; gen is 2 under feature v2, else 1
TopRequestOutputFlags(gen, active, edge, bias, drive) ==
    {"OUTPUT"}
    \cup TopActiveFlags(active)
    \cup (IF gen = 2 THEN TopEdgeFlags(edge) ELSE {})
    \cup TopBiasFlags(bias)
    \cup TopDriveFlags(drive)

\* the flags of Chip::request_input
TopRequestInputFlags(gen, active, edge, bias) ==
    {"INPUT"}
    \cup TopActiveFlags(active)
    \cup (IF gen = 2 THEN TopEdgeFlags(edge) ELSE {})
    \cup TopBiasFlags(bias)

\* the request either method has built when it reaches the ioctl: the
\* Result is its status and <<request>>, or <<>> when it returns or panics
\* before
TopRequest(ls, flags, label) ==
    LET request == DefaultRequest
        size == Len(request.offsets) * LineIdSize
    IN  IF CheckLen(Len(ls), size) # "Ok"
        THEN [status |-> "InvalidInput", request |-> <<>>]
        ELSE LET copied == CopyFromSlice(request.offsets, ls)
                 str == SafeSetStr(request.consumer, label)
             IN  IF copied.panic
                 THEN [status |-> Panic, request |-> <<>>]
                 ELSE IF str.status # "Ok"
                 THEN [status |-> str.status, request |-> <<>>]
                 ELSE [status |-> "Ok",
                       request |-> <<
                           [request EXCEPT
                               !.num_lines = Len(ls),
                               !.offsets = copied.offsets,
                               !.flags = flags,
                               !.consumer = str.dst] >>]

\* Chip::request_output(lines, active, edge, bias, drive, label)
TopRequestOutput(gen, ls, active, edge, bias, drive, label) ==
    TopRequest(ls, TopRequestOutputFlags(gen, active, edge, bias, drive),
               label)

\* Chip::request_input(lines, active, edge, bias, label)
TopRequestInput(gen, ls, active, edge, bias, label) ==
    TopRequest(ls, TopRequestInputFlags(gen, active, edge, bias), label)

(***************************************************************************)
(* async-std/src/lib.rs: Chip::request_input and Chip::request_output      *)
(***************************************************************************)
\* the variants of EdgeDetect, Bias and Drive a front end takes
Edges == {"Disable", "Rising", "Falling", "Both"}

Biases == {"Disable", "PullUp", "PullDown"}

Drives == {"PushPull", "OpenDrain", "OpenSource"}

\* the arguments Chip::request_output hands to info.request_lines; Some(x) is
\* x, None is "None", and the values are an Option as in GpioLineRequestNew
AsyncStdRequestOutput(ls, active, edge, bias, drive, vals, label) ==
    [lines |-> ls, direction |-> "Output", active |-> active, edge |-> edge,
     bias |-> bias, drive |-> drive, values |-> vals, consumer |-> label]

\* the arguments Chip::request_input hands to info.request_lines
AsyncStdRequestInput(ls, active, edge, bias, label) ==
    [lines |-> ls, direction |-> "Output", active |-> active, edge |-> edge,
     bias |-> bias, drive |-> "None", values |-> <<>>, consumer |-> label]

\* request_lines on a generation 2 chip: the request it encodes from the
\* arguments before the ioctl
RequestLines(a) ==
    GpioLineRequestNew(a.lines, a.direction, a.active, a.edge, a.bias,
                       a.drive, a.values, a.consumer)

(***************************************************************************)
(* core/src/values.rs: Masked<T>, T one of u8, u16, u32, u64               *)
(***************************************************************************)
Widths == {8, 16, 32, 64}

\* AsValues::get for Masked<T>
MaskedGet(self, id) ==
    IF id >= AsBitId(self.w) THEN None
    ELSE LET mask == {id} IN
         IF self.mask \cap mask = {} THEN None
         ELSE Some(self.bits \cap mask # {})

\* AsValuesMut::set for Masked<T>; val is an Option<bool>
MaskedSet(self, id, val) ==
    IF id >= AsBitId(self.w) THEN self
    ELSE LET mask == {id} IN
         IF val # None
         THEN [self EXCEPT
                   !.mask = self.mask \cup mask,
                   !.bits = IF val = Some(TRUE) THEN self.bits \cup mask
                                                ELSE self.bits \ mask]
         ELSE [self EXCEPT
                   !.mask = self.mask \ mask,
                   !.bits = self.bits \ mask]

\* the loop of AsValuesMut::truncate for id in lo..=hi, in two halves
RECURSIVE TruncateLoop(_, _, _)
TruncateLoop(self, lo, hi) ==
    IF lo > hi THEN self
    ELSE IF lo = hi THEN MaskedSet(self, AsBitId(lo), None)
    ELSE LET mid == (lo + hi) \div 2 IN
         Eval({TruncateLoop(left, mid + 1, hi) :
                  left \in {TruncateLoop(self, lo, mid)}})

\* AsValuesMut::truncate(len) for Masked<T>: for id in len..self.bits()
MaskedTruncate(self, len) == TruncateLoop(self, len, self.w - 1)

\* impl From<$type> for Masked<$type>
MaskedFromInt(bits, w) == [w |-> w, bits |-> bits, mask |-> LowBits(w)]

\* impl From<Masked<$type>> for $type
MaskedIntoInt(self) == BitAnd(BitAnd(self.bits, self.mask), LowBits(self.w))

\* Binary for Masked<T> with the length Display for Values uses: up to the
\* highest set mask bit
MaskedFmtSpansMask(self, alternate) ==
    LET max == AsBitId(self.w)
        len == MaxOf(max - AsBitId(LeadingZeros(self.mask, self.w)), 1)
    IN  (IF alternate THEN <<"0", "b">> ELSE <<>>) \o
        [k \in 1 .. len |-> BitChar(MaskedGet(self, len - k))]

\* impl fmt::Binary for Masked<T>, which Display calls, for a format without
\* a width (f.width() is None, so fill is 0); alternate is the `#` flag
MaskedFmt(self, alternate) ==
    LET max == AsBitId(self.w)
        len == MaxOf(max - AsBitId(LeadingZeros(BitAnd(self.mask, self.bits),
                                                self.w)), 1)
    IN  (IF alternate THEN <<"0", "b">> ELSE <<>>) \o
        [k \in 1 .. len |-> BitChar(MaskedGet(self, len - k))]

\* one pass of the loop body of Masked::from_str; i is a BitId, so `i -= 1`
\* cannot go below 0, and `1 << i` cannot shift by the width or more
MaskedFromStrStep(st, c) ==
    IF st.err \/ st.panic THEN st
    ELSE IF st.i = 0 /\ checks THEN [st EXCEPT !.panic = TRUE]
    ELSE LET i == AsBitId(st.i - 1 + BitIdRange)
             b == ShlOne(i, st.w)
         IN  IF c = "1"
             THEN IF b.panic THEN [st EXCEPT !.i = i, !.panic = TRUE]
                  ELSE [st EXCEPT !.i = i, !.bits = BitOr(st.bits, b.val),
                                  !.mask = BitOr(st.mask, b.val)]
             ELSE IF c = "0"
             THEN IF b.panic THEN [st EXCEPT !.i = i, !.panic = TRUE]
                  ELSE [st EXCEPT !.i = i, !.mask = BitOr(st.mask, b.val)]
             ELSE IF c = "x"
             THEN [st EXCEPT !.i = i]
             ELSE [st EXCEPT !.i = i, !.err = TRUE]

\* the loop of Masked::from_str over s[lo..hi], in two halves
RECURSIVE MaskedFromStrLoop(_, _, _, _)
MaskedFromStrLoop(st, s, lo, hi) ==
    IF lo > hi THEN st
    ELSE IF lo = hi THEN MaskedFromStrStep(st, s[lo])
    ELSE LET mid == (lo + hi) \div 2 IN
         Eval({MaskedFromStrLoop(left, s, mid + 1, hi) :
                  left \in {MaskedFromStrLoop(st, s, lo, mid)}})

\* impl str::FromStr for Masked<T>, T of width w
MaskedFromStr(text, w) ==
    LET s == StripPrefix(text)
        i == AsBitId(Len(s))
    IN  IF i > AsBitId(w) THEN [status |-> "InvalidInput", self |-> Default(w)]
        ELSE LET st == MaskedFromStrLoop(
                           [err |-> FALSE, panic |-> FALSE, w |-> w, i |-> i,
                            bits |-> {}, mask |-> {}],
                           s, 1, Len(s))
             IN  IF st.panic THEN [status |-> Panic, self |-> Default(w)]
                 ELSE IF st.err
                 THEN [status |-> "InvalidInput", self |-> Default(w)]
                 ELSE [status |-> "Ok",
                       self |-> [w |-> w, bits |-> st.bits, mask |-> st.mask]]

(***************************************************************************)
(* core/src/iop/v1.rs: GpioHandleData                                      *)
(***************************************************************************)
\* GpioHandleData::default().values: one byte per line, all zero
DefaultHandleValues == [k \in 1 .. LINES_MAX |-> 0]

\* GpioHandleData::from_values(len, values) for a Masked<T>: the values array
\* (index i of the code is k - 1 here); data.values[i] panics past the array
HandleDataFromValues(len, self) ==
    IF len > Len(DefaultHandleValues)
    THEN [panic |-> TRUE, values |-> DefaultHandleValues]
    ELSE [panic |-> FALSE,
          values |-> [k \in 1 .. Len(DefaultHandleValues) |->
                         IF k <= len /\ MaskedGet(self, AsBitId(k - 1)) = Some(TRUE)
                         THEN 1 ELSE DefaultHandleValues[k]]]

(***************************************************************************)
(* core/src/lib.rs: Options and Internal<ChipInfo>::request_lines          *)
(***************************************************************************)
\* Options::input(lines) and Options::output(lines): every field but lines
\* is its default; an Option is "None" or the value, the values <<>> or <<v>>
OptionsNew(ls) ==
    [lines |-> ls, active |-> "High", edge |-> "None", bias |-> "None",
     drive |-> "None", values |-> <<>>, consumer |-> <<>>]

OptionsConsumer(self, consumer) == [self EXCEPT !.consumer = consumer]

OptionsActive(self, active) == [self EXCEPT !.active = active]

OptionsBias(self, bias) == [self EXCEPT !.bias = bias]

OptionsEdge(self, edge) == [self EXCEPT !.edge = edge]

OptionsDrive(self, drive) == [self EXCEPT !.drive = drive]

OptionsValues(self, vals) == [self EXCEPT !.values = <<vals>>]

\* the descriptor request_lines is called on and the one the kernel stores
\* in request.fd when the acquisition succeeds
ChipFd == "chip"

LineFd == "line"

\* Internal::<ValuesInfo>::new
ValuesInfoNew(consumer, ls) ==
    [consumer |-> consumer, lines |-> ls, index |-> LineMapNew(ls)]

\* the Result of request_lines: its status, the encoded request (<<>> when
\* encoding failed), the ioctls issued in order, and the returned pair
\* (<<>> on an error)
RequestLinesResult(status, request, ioctls, out) ==
    [status |-> status, request |-> request, ioctls |-> ioctls, out |-> out]

\* Internal<ChipInfo>::request_lines(fd, options) for Direction::DIR =
\* direction; gen is 2 under feature v2, else 1; acquired and set tell
\* whether the acquisition ioctl and the set-values ioctl succeed
InternalRequestLines(gen, fd, direction, options, acquired, set) ==
    LET new == IF gen = 1
               THEN GpioHandleRequestNew(options.lines, direction,
                        options.active, options.bias, options.drive,
                        options.consumer)
               ELSE GpioLineRequestNew(options.lines, direction,
                        options.active, options.edge, options.bias,
                        options.drive, options.values, options.consumer)
        acquire == [call |-> IF gen = 1 THEN "gpio_get_line_handle"
                             ELSE "gpio_get_line",
                    fd |-> fd, arg |-> new.request]
        data == HandleDataFromValues(Len(options.lines), options.values[1])
        setValues == [call |-> "gpio_set_line_values", fd |-> fd,
                      arg |-> <<data.values>>]
        ok == <<[info |-> ValuesInfoNew(options.consumer, options.lines),
                 fd |-> LineFd]>>
    IN  IF new.status # "Ok"
        THEN RequestLinesResult(new.status, new.request, <<>>, <<>>)
        ELSE IF ~acquired
        THEN RequestLinesResult("IoError", new.request, <<acquire>>, <<>>)
        ELSE IF gen = 2 \/ options.values = <<>>
        THEN RequestLinesResult("Ok", new.request, <<acquire>>, ok)
        ELSE IF data.panic
        THEN RequestLinesResult(Panic, new.request, <<acquire>>, <<>>)
        ELSE IF ~set
        THEN RequestLinesResult("IoError", new.request,
                                <<acquire, setValues>>, <<>>)
        ELSE RequestLinesResult("Ok", new.request, <<acquire, setValues>>, ok)

(***************************************************************************)
(* core/src/iop/v2.rs, core/src/iop/v1.rs: GpioLineInfo::as_info           *)
(***************************************************************************)
\* is_set(flags, flag) for a flag of one bit
FlagIsSet(flags, flag) == (flags \cap {flag}) = {flag}

\* whether the byte at position i (from 1) is a continuation byte in lo..hi
Utf8Tail(src, i, lo, hi) == i <= Len(src) /\ src[i] >= lo /\ src[i] <= hi

\* str::from_utf8(src).is_ok() from position i on: the well-formed byte
\* sequences of UTF-8
RECURSIVE Utf8ValidFrom(_, _)
Utf8ValidFrom(src, i) ==
    IF i > Len(src) THEN TRUE
    ELSE LET b == src[i] IN
         IF b <= 127 THEN Utf8ValidFrom(src, i + 1)
         ELSE IF b >= 194 /\ b <= 223
         THEN Utf8Tail(src, i + 1, 128, 191) /\ Utf8ValidFrom(src, i + 2)
         ELSE IF b >= 224 /\ b <= 239
         THEN /\ Utf8Tail(src, i + 1, IF b = 224 THEN 160 ELSE 128,
                          IF b = 237 THEN 159 ELSE 191)
              /\ Utf8Tail(src, i + 2, 128, 191)
              /\ Utf8ValidFrom(src, i + 3)
         ELSE IF b >= 240 /\ b <= 244
         THEN /\ Utf8Tail(src, i + 1, IF b = 240 THEN 144 ELSE 128,
                          IF b = 244 THEN 143 ELSE 191)
              /\ Utf8Tail(src, i + 2, 128, 191)
              /\ Utf8Tail(src, i + 3, 128, 191)
              /\ Utf8ValidFrom(src, i + 4)
         ELSE FALSE

\* safe_get_str that replaces what is not UTF-8 instead of failing
SafeGetStrLossy(src) ==
    LET kept == {k \in 1 .. Len(src) : src[k] # 0}
    IN  [status |-> "Ok", str |-> SubSeq(src, 1, Max(kept \cup {0}))]

\* safe_get_str(src): the bytes of the text without the trailing NUL bytes
SafeGetStr(src) ==
    IF ~Utf8ValidFrom(src, 1) THEN [status |-> "InvalidData", str |-> <<>>]
    ELSE LET kept == {k \in 1 .. Len(src) : src[k] # 0}
         IN  [status |-> "Ok", str |-> SubSeq(src, 1, Max(kept \cup {0}))]

\* GpioLineInfo::as_info of generation gen (2 under feature v2, else 1); the
\* flag word is the set of its flags, IS_OUT being OUTPUT and KERNEL being
\* USED in generation 1; the Result is its status and <<LineInfo>>
LineInfoAsInfo(gen, self) ==
    LET direction == IF FlagIsSet(self.flags, "OUTPUT") THEN "Output" ELSE "Input"
        active == IF FlagIsSet(self.flags, "ACTIVE_LOW") THEN "Low" ELSE "High"
        rising == FlagIsSet(self.flags, "EDGE_RISING")
        falling == FlagIsSet(self.flags, "EDGE_FALLING")
        edge == IF gen = 1 THEN "Disable"
                ELSE IF rising /\ ~falling THEN "Rising"
                ELSE IF ~rising /\ falling THEN "Falling"
                ELSE IF rising /\ falling THEN "Both"
                ELSE "Disable"
        used == FlagIsSet(self.flags, "USED")
        up == FlagIsSet(self.flags, "BIAS_PULL_UP")
        down == FlagIsSet(self.flags, "BIAS_PULL_DOWN")
        bias == IF up /\ ~down THEN "PullUp"
                ELSE IF ~up /\ down THEN "PullDown"
                ELSE "Disable"
        drain == FlagIsSet(self.flags, "OPEN_DRAIN")
        source == FlagIsSet(self.flags, "OPEN_SOURCE")
        drive == IF drain /\ ~source THEN "OpenDrain"
                 ELSE IF ~drain /\ source THEN "OpenSource"
                 ELSE "PushPull"
        name == SafeGetStr(self.name)
        consumer == SafeGetStr(self.consumer)
    IN  IF name.status # "Ok" THEN [status |-> name.status, info |-> <<>>]
        ELSE IF consumer.status # "Ok"
        THEN [status |-> consumer.status, info |-> <<>>]
        ELSE [status |-> "Ok",
              info |-> <<[direction |-> direction, active |-> active,
                          edge |-> edge, used |-> used, bias |-> bias,
                          drive |-> drive, name |-> name.str,
                          consumer |-> consumer.str]>>]

(***************************************************************************)
(* core/src/iop/v1.rs, core/src/iop/v2.rs, src/lib.rs: event decoding      *)
(***************************************************************************)
\* GPIO_LINE_EVENT_RISING_EDGE / GPIOEVENT_EVENT_RISING_EDGE
RISING_EDGE == "RISING_EDGE"

\* GPIO_LINE_EVENT_FALLING_EDGE / GPIOEVENT_EVENT_FALLING_EDGE
FALLING_EDGE == "FALLING_EDGE"

NanosPerSec == 1000000000

\* time_from_nanos(nanos): Duration::from_nanos
TimeFromNanos(nanos) ==
    [secs |-> nanos \div NanosPerSec, nanos |-> nanos % NanosPerSec]

\* `match self.id` of as_event and make_event: the edge, or <<>> for an
\* unknown code
EdgeOfId(id) ==
    IF id = RISING_EDGE THEN <<"Rising">>
    ELSE IF id = FALLING_EDGE THEN <<"Falling">>
    ELSE <<>>

\* a Result<Event>: Ok with <<event>>, or an error with its message
OkEvent(line, edge, time) ==
    [status |-> "Ok", msg |-> "",
     event |-> <<[line |-> line, edge |-> edge, time |-> time]>>]

ErrEvent(status, msg) == [status |-> status, msg |-> msg, event |-> <<>>]

\* as_event that takes the kernel offset of the record as the line
GpioLineEventAsEventByOffset(ev, m) ==
    LET edge == EdgeOfId(ev.id)
    IN  IF edge = <<>> THEN ErrEvent("InvalidData", "Unknown edge")
        ELSE OkEvent(AsBitId(ev.offset), edge[1], TimeFromNanos(ev.timestamp_ns))

\* GpioLineEvent::as_event (generation 2)
GpioLineEventAsEvent(ev, m) ==
    LET line == LineMapGet(m, ev.offset)
        edge == EdgeOfId(ev.id)
    IN  IF line.status # "Ok"
        THEN ErrEvent(line.status, "Unknown line offset")
        ELSE IF edge = <<>> THEN ErrEvent("InvalidData", "Unknown edge")
        ELSE OkEvent(line.val, edge[1], TimeFromNanos(ev.timestamp_ns))

\* GpioEventData::as_event that takes every unknown code for a falling edge
GpioEventDataAsEventDefaulting(ev, line) ==
    OkEvent(line, IF ev.id = RISING_EDGE THEN "Rising" ELSE "Falling",
            TimeFromNanos(ev.timestamp))

\* GpioEventData::as_event (generation 1): the caller names the line
GpioEventDataAsEvent(ev, line) ==
    LET edge == EdgeOfId(ev.id)
    IN  IF edge = <<>> THEN ErrEvent("InvalidData", "Unknown edge")
        ELSE OkEvent(line, edge[1], TimeFromNanos(ev.timestamp))

\* LineValues::new of the crate gpiod: the index, a HashMap collected from
\* the pairs (line, index) in the order of the list, so that a later pair
\* replaces an earlier one with the same line
LineValuesIndex(offset) ==
    [line \in {offset[i] : i \in 1 .. Len(offset)} |->
        AsBitId(Max({i \in 1 .. Len(offset) : offset[i] = line}) - 1)]

\* LineValues::line_bit
LineBit(index, line) == IF line \in DOMAIN index THEN <<index[line]>> ELSE <<>>

\* LineValues::make_event of the crate gpiod with feature v2
MakeEventV2(index, ev) ==
    LET line == LineBit(index, ev.offset)
        edge == EdgeOfId(ev.id)
    IN  IF line = <<>> THEN ErrEvent("InvalidData", "Unknown line offset")
        ELSE IF edge = <<>> THEN ErrEvent("InvalidData", "Unknown edge")
        ELSE OkEvent(line[1], edge[1], TimeFromNanos(ev.timestamp_ns))

\* LineValues::make_event of the crate gpiod without feature v2
MakeEventV1(line, ev) ==
    LET edge == EdgeOfId(ev.id)
    IN  IF edge = <<>> THEN ErrEvent("InvalidData", "Unknown edge")
        ELSE OkEvent(line, edge[1], TimeFromNanos(ev.timestamp))

(***************************************************************************)
(* src/lib.rs, async-std/src/lib.rs: read_event without feature v2         *)
(***************************************************************************)
\* size_of::<raw::v1::GpioEventData>(): a 64-bit timestamp and a 32-bit id,
\* aligned to 8 bytes
EventDataSize == 16

\* check_size(len, val): `size` is size_of_val(val)
CheckSize(len, size) == IF len = size THEN "Ok" ELSE "InvalidData"

\* LineValues::read_event of the crate gpiod without feature v2; read is the
\* result of self.file.read: <<n>> for Ok(n), <<>> for an I/O error
ReadEventV1(read) ==
    IF read = <<>> THEN ErrEvent("IoError", "")
    ELSE IF CheckSize(read[1], EventDataSize) # "Ok"
    THEN ErrEvent("InvalidData", "Unexpected size")
    ELSE ErrEvent(Panic, "not yet implemented")

\* LineValues::read_event_async of the crate gpiod without feature v2
ReadEventAsyncV1 == ErrEvent(Panic, "not yet implemented")

\* read_event of the crate gpiod-async-std without feature v2
AsyncStdReadEventV1 == ErrEvent(Panic, "not yet implemented")

(***************************************************************************)
(* core/src/types.rs, src/types.rs: the configuration enums as text        *)
(***************************************************************************)
\* a Result<Self> of from_str: Ok with <<variant>>, or an error
OkVariant(x) == [status |-> "Ok", val |-> <<x>>]

ErrVariant(status) == [status |-> status, val |-> <<>>]

\* impl AsRef<str> for Direction
DirectionAsRef(x) == IF x = "Input" THEN "input" ELSE "output"

\* impl str::FromStr for Direction
DirectionFromStr(s) ==
    IF s \in {"i", "in", "input"} THEN OkVariant("Input")
    ELSE IF s \in {"o", "out", "output"} THEN OkVariant("Output")
    ELSE ErrVariant("InvalidInput")

\* impl AsRef<str> for Active
ActiveAsRef(x) == IF x = "Low" THEN "low" ELSE "high"

\* impl str::FromStr for Active
ActiveFromStr(s) ==
    IF s \in {"l", "lo", "low", "active-low"} THEN OkVariant("Low")
    ELSE IF s \in {"h", "hi", "high", "active-high"} THEN OkVariant("High")
    ELSE ErrVariant("InvalidInput")

\* impl AsRef<str> for Edge
EdgeAsRef(x) == IF x = "Rising" THEN "rising" ELSE "falling"

\* impl str::FromStr for Edge
EdgeFromStr(s) ==
    IF s \in {"r", "rise", "rising"} THEN OkVariant("Rising")
    ELSE IF s \in {"f", "fall", "falling"} THEN OkVariant("Falling")
    ELSE ErrVariant("InvalidInput")

\* impl AsRef<str> for EdgeDetect
EdgeDetectAsRef(x) ==
    IF x = "Disable" THEN "disable"
    ELSE IF x = "Rising" THEN "rising"
    ELSE IF x = "Falling" THEN "falling"
    ELSE "both"

\* impl str::FromStr for EdgeDetect
EdgeDetectFromStr(s) ==
    IF s \in {"d", "disable"} THEN OkVariant("Disable")
    ELSE IF s \in {"r", "rise", "rising"} THEN OkVariant("Rising")
    ELSE IF s \in {"f", "fall", "falling"} THEN OkVariant("Falling")
    ELSE IF s \in {"b", "both", "rise-fall", "rising-falling"}
    THEN OkVariant("Both")
    ELSE ErrVariant("InvalidInput")

\* impl AsRef<str> for Bias, the same text in both crates
BiasAsRef(x) ==
    IF x = "Disable" THEN "disable"
    ELSE IF x = "PullUp" THEN "pull-up"
    ELSE "pull-down"

\* the arms of `match s` of Bias::from_str, the same in both crates; <<>>
\* for the arm `_`
BiasOfStr(s) ==
    IF s \in {"d", "disable"} THEN <<"Disable">>
    ELSE IF s \in {"pu", "pull-up"} THEN <<"PullUp">>
    ELSE IF s \in {"pd", "pull-down"} THEN <<"PullUp">>
    ELSE <<>>

\* impl str::FromStr for Bias (crate gpiod-core)
BiasFromStr(s) ==
    IF BiasOfStr(s) = <<>> THEN ErrVariant("InvalidInput")
    ELSE OkVariant(BiasOfStr(s)[1])

\* impl str::FromStr for Bias (crate gpiod): the error is ()
TopBiasFromStr(s) ==
    IF BiasOfStr(s) = <<>> THEN ErrVariant("Err")
    ELSE OkVariant(BiasOfStr(s)[1])

\* impl AsRef<str> for Drive
DriveAsRef(x) ==
    IF x = "PushPull" THEN "push-pull"
    ELSE IF x = "OpenDrain" THEN "open-drain"
    ELSE "open-source"

\* impl str::FromStr for Drive
DriveFromStr(s) ==
    IF s \in {"pp", "push-pull"} THEN OkVariant("PushPull")
    ELSE IF s \in {"od", "open-drain"} THEN OkVariant("OpenDrain")
    ELSE IF s \in {"os", "open-source"} THEN OkVariant("OpenSource")
    ELSE ErrVariant("InvalidInput")

\* the enums; "gpiod::Bias" is Bias of the crate gpiod
EnumTypes ==
    {"Direction", "Active", "Edge", "EdgeDetect", "Bias", "gpiod::Bias", "Drive"}

\* the variants of an enum
Variants(ty) ==
    CASE ty = "Direction" -> {"Input", "Output"}
      [] ty = "Active" -> {"Low", "High"}
      [] ty = "Edge" -> {"Rising", "Falling"}
      [] ty = "EdgeDetect" -> {"Disable", "Rising", "Falling", "Both"}
      [] ty \in {"Bias", "gpiod::Bias"} -> {"Disable", "PullUp", "PullDown"}
      [] ty = "Drive" -> {"PushPull", "OpenDrain", "OpenSource"}

\* x.as_ref() for a variant x of the enum ty
AsRefOf(ty, x) ==
    CASE ty = "Direction" -> DirectionAsRef(x)
      [] ty = "Active" -> ActiveAsRef(x)
      [] ty = "Edge" -> EdgeAsRef(x)
      [] ty = "EdgeDetect" -> EdgeDetectAsRef(x)
      [] ty \in {"Bias", "gpiod::Bias"} -> BiasAsRef(x)
      [] ty = "Drive" -> DriveAsRef(x)

\* s.parse::<ty>()
FromStrOf(ty, s) ==
    CASE ty = "Direction" -> DirectionFromStr(s)
      [] ty = "Active" -> ActiveFromStr(s)
      [] ty = "Edge" -> EdgeFromStr(s)
      [] ty = "EdgeDetect" -> EdgeDetectFromStr(s)
      [] ty = "Bias" -> BiasFromStr(s)
      [] ty = "gpiod::Bias" -> TopBiasFromStr(s)
      [] ty = "Drive" -> DriveFromStr(s)

(***************************************************************************)
(* src/types.rs (crate gpiod): Values                                      *)
(***************************************************************************)
\* Values::get of the top-level crate
TopValuesGet(self, bit) ==
    IF bit > 64 THEN None
    ELSE LET mask == ShlOne(bit, 64) IN
         IF mask.panic THEN Panic
         ELSE IF self.mask \cap mask.val = {} THEN None
         ELSE Some(self.bits \cap mask.val # {})

\* values_conv! of the top-level crate: impl From<$type> for Values
TopValuesFromInt(bits, w) == [w |-> 64, bits |-> bits, mask |-> LowBits(w)]

\* values_conv! of the top-level crate: impl From<Values> for $type
TopValuesIntoInt(self, w) == BitAnd(self.bits, LowBits(w))

(***************************************************************************)
(* Inputs of the calls                                                     *)
(***************************************************************************)
\* bit positions the receivers use
Positions(w) == LowBits(MaxLow) \cup {w - 1}

\* receivers: every bits/mask pair over the positions, and the containers
\* whose low k bits are defined for k close to the width
Receivers(w) ==
    {[w |-> w, bits |-> b, mask |-> m] :
        b \in SUBSET Positions(w), m \in SUBSET Positions(w)}
    \cup
    UNION {{[w |-> w, bits |-> b, mask |-> LowBits(k)] :
                b \in {{}, LowBits(k), {0}, {k - 1}}} :
           k \in {w - 1, w}}

\* bit arguments: in range, at the width, just above it, and the largest u8
BitArgs(w) == Positions(w) \cup {w, w + 1, BitIdRange - 1}

\* n copies of c
Run(c, n) == [i \in 1 .. n |-> c]

\* sequences over S of length at most n
SeqsUpTo(S, n) == UNION {[1 .. k -> S] : k \in 0 .. n}

\* lengths of the run that follows the free head: none, or up to the width
RunLens(w) == {0, w - 1, w}

\* boolean sequences of length 0..MaxHead and w-1..w+MaxHead
BoolSeqs(w) ==
    {h \o Run(c, n) : h \in SeqsUpTo(BOOLEAN, MaxHead), c \in BOOLEAN,
                      n \in RunLens(w)}

\* the characters of a text; "y" stands for every character that is none of
\* '0', '1', 'x' and 'b'
Chars == {"0", "1", "x", "b", "y"}

BitChars == {"0", "1", "x"}

\* texts: an optional "0b", a free head, and a run of one bit character
Texts(w) ==
    {p \o h \o Run(c, n) : p \in {<<>>, <<"0", "b">>},
                            h \in SeqsUpTo(Chars, MaxHead),
                            c \in BitChars, n \in RunLens(w)}

\* unsigned integers of width w
Ints(w) == SUBSET Positions(w)

\* no LineMap has been built
NoMap == <<>>

\* the list of n distinct offsets, ascending
Ascending(n) == [i \in 1 .. n |-> i - 1]

\* the list of n distinct offsets, descending
Descending(n) == [i \in 1 .. n |-> n - i]

\* the line lists of a request: empty, short, and around the length of the
\* offsets array counted in elements and counted in bytes
RequestLists ==
    {Ascending(n) : n \in {0, 1, 2}}
    \cup {Ascending(n) : n \in {LINES_MAX - 1, LINES_MAX, LINES_MAX + 1}}
    \cup {Descending(LINES_MAX), Descending(LINES_MAX + 1)}
    \cup {Ascending(n) : n \in {LINES_MAX * LineIdSize - 1,
                                LINES_MAX * LineIdSize,
                                LINES_MAX * LineIdSize + 1}}

\* the line lists a LineMap is built from: every short list, duplicates
\* included, and the longest lists a request holds
MapLists ==
    SeqsUpTo(0 .. MaxOffset, MaxLines)
    \cup {Ascending(n) : n \in {LINES_MAX - 1, LINES_MAX}}
    \cup {Descending(n) : n \in {LINES_MAX - 1, LINES_MAX}}

\* the offsets looked up: those of the short lists, one more, and around the
\* end of the long lists
Lookups == (0 .. MaxOffset + 1) \cup {LINES_MAX - 2, LINES_MAX - 1, LINES_MAX}

Directions == {"Input", "Output"}

Actives == {"Low", "High"}

EdgeOptions == {"None", "Disable", "Rising", "Falling", "Both"}

BiasOptions == {"None", "Disable", "PullUp", "PullDown"}

DriveOptions == {"None", "PushPull", "OpenDrain", "OpenSource"}

\* initial values of an output request: an Option<Values>, <<>> when None
ValuesOptions == {<<>>, <<[w |-> MAX, bits |-> {0}, mask |-> {0, 1}]>>}

\* consumer labels: empty, one byte, and around the size of the field
Consumers == {Run("c", n) : n \in {0, 1, NAME_SIZE - 1, NAME_SIZE, NAME_SIZE + 1}}

\* numbers of lines of a request whose values are transferred
LineCounts(w) == {0, 1, MaxLow, w - 1, w, LINES_MAX}

\* event codes: the two edges and two codes that are neither
EventIds == {RISING_EDGE, FALLING_EDGE, "0", "3"}

\* nanosecond timestamps: below, at and above one second
Timestamps == {0, NanosPerSec - 1, NanosPerSec + 1}

\* results of reading an event record from the descriptor: an I/O error,
\* nothing, a short record and a whole record
ReadResults == {<<>>, <<0>>, <<EventDataSize - 1>>, <<EventDataSize>>}

\* tokens in no enum's vocabulary
ForeignTokens == {"", "x", "Input", "pull", "pull-up ", "up", "open", "none"}

\* tokens parsed: the text of every variant, every short form, and foreign
\* tokens
Tokens ==
    {"i", "in", "input", "o", "out", "output",
     "l", "lo", "low", "active-low", "h", "hi", "high", "active-high",
     "r", "rise", "rising", "f", "fall", "falling",
     "d", "disable", "b", "both", "rise-fall", "rising-falling",
     "pu", "pull-up", "pd", "pull-down",
     "pp", "push-pull", "od", "open-drain", "os", "open-source"}
    \cup ForeignTokens

NoCall == [op |-> "none"]

\* no front end is in use
NoFront == [handle |-> "none"]

Ready == ret.op = "none"

(***************************************************************************)
(* Calls on a value container                                              *)
(***************************************************************************)
CallValuesGet ==
    /\ Ready /\ values.w = MAX
    /\ \E bit \in BitArgs(MAX) :
          ret' = [op |-> "Values::get", bit |-> bit, out |-> ValuesGet(values, bit)]
    /\ UNCHANGED <<front, checks, values, lines, map>>

CallValuesSet ==
    /\ Ready /\ values.w = MAX
    /\ \E bit \in BitArgs(MAX), val \in BOOLEAN :
          LET r == ValuesSet(values, bit, val) IN
          /\ values' = r.self
          /\ ret' = [op |-> "Values::set", bit |-> bit, val |-> val,
                     old |-> values, panic |-> r.panic]
    /\ UNCHANGED <<front, checks, lines, map>>

CallTopValuesGet ==
    /\ Ready /\ values.w = 64
    /\ \E bit \in BitArgs(64) :
          ret' = [op |-> "gpiod::Values::get", bit |-> bit,
                  out |-> TopValuesGet(values, bit)]
    /\ UNCHANGED <<front, checks, values, lines, map>>

CallValuesExtend ==
    /\ Ready /\ values.w = MAX
    /\ \E items \in BoolSeqs(MAX) :
          LET r == ValuesExtend(values, items) IN
          /\ values' = r.self
          /\ ret' = [op |-> "Values::extend", items |-> items,
                     old |-> values, panic |-> r.panic]
    /\ UNCHANGED <<front, checks, lines, map>>

\* from_iter starts from Self::default()
CallValuesFromIter ==
    /\ Ready /\ values = Default(MAX)
    /\ \E items \in BoolSeqs(MAX) :
          LET r == ValuesFromIter(items) IN
          /\ values' = IF r.panic THEN values ELSE r.self
          /\ ret' = [op |-> "Values::from_iter", items |-> items,
                     panic |-> r.panic]
    /\ UNCHANGED <<front, checks, lines, map>>

CallValuesIntoIter ==
    /\ Ready /\ values.w = MAX
    /\ ret' = [op |-> "Values::into_iter",
               out |-> ValuesIterCollect(ValuesIntoIter(values))]
    /\ UNCHANGED <<front, checks, values, lines, map>>

CallValuesFmt ==
    /\ Ready /\ values.w = MAX
    /\ ret' = [op |-> "Values::fmt", out |-> ValuesFmt(values)]
    /\ UNCHANGED <<front, checks, values, lines, map>>

\* from_str starts from Self::default()
CallValuesFromStr ==
    /\ Ready /\ values = Default(MAX)
    /\ \E text \in Texts(MAX) :
          LET r == ValuesFromStr(text) IN
          /\ values' = r.self
          /\ ret' = [op |-> "Values::from_str", text |-> text,
                     status |-> r.status]
    /\ UNCHANGED <<front, checks, lines, map>>

CallValuesFromInt ==
    /\ Ready /\ values = Default(MAX)
    /\ \E w \in Widths : \E x \in Ints(w) :
          /\ values' = ValuesFromInt(x, w)
          /\ ret' = [op |-> "Values::from", w |-> w, x |-> x]
    /\ UNCHANGED <<front, checks, lines, map>>

CallValuesIntoInt ==
    /\ Ready /\ values.w = MAX
    /\ \E w \in Widths :
          ret' = [op |-> "Values::into", w |-> w,
                  out |-> ValuesIntoInt(values, w)]
    /\ UNCHANGED <<front, checks, values, lines, map>>

CallTopValuesFromInt ==
    /\ Ready /\ values = Default(64)
    /\ \E w \in Widths : \E x \in Ints(w) :
          /\ values' = TopValuesFromInt(x, w)
          /\ ret' = [op |-> "gpiod::Values::from", w |-> w, x |-> x]
    /\ UNCHANGED <<front, checks, lines, map>>

CallTopValuesIntoInt ==
    /\ Ready /\ values.w = 64
    /\ \E w \in Widths :
          ret' = [op |-> "gpiod::Values::into", w |-> w,
                  out |-> TopValuesIntoInt(values, w)]
    /\ UNCHANGED <<front, checks, values, lines, map>>

CallMaskedFmt ==
    /\ Ready
    /\ \E alternate \in BOOLEAN :
          ret' = [op |-> "Masked::fmt", alternate |-> alternate,
                  out |-> MaskedFmt(values, alternate)]
    /\ UNCHANGED <<front, checks, values, lines, map>>

\* from_str starts from Self::default()
CallMaskedFromStr ==
    /\ Ready /\ values = Default(values.w)
    /\ \E text \in Texts(values.w) :
          LET r == MaskedFromStr(text, values.w) IN
          /\ values' = r.self
          /\ ret' = [op |-> "Masked::from_str", text |-> text,
                     status |-> r.status]
    /\ UNCHANGED <<front, checks, lines, map>>

CallMaskedFromInt ==
    /\ Ready /\ values = Default(values.w)
    /\ \E x \in Ints(values.w) :
          /\ values' = MaskedFromInt(x, values.w)
          /\ ret' = [op |-> "Masked::from", w |-> values.w, x |-> x]
    /\ UNCHANGED <<front, checks, lines, map>>

CallMaskedIntoInt ==
    /\ Ready
    /\ ret' = [op |-> "Masked::into", w |-> values.w,
               out |-> MaskedIntoInt(values)]
    /\ UNCHANGED <<front, checks, values, lines, map>>

CallMaskedGet ==
    /\ Ready
    /\ \E id \in BitArgs(values.w) :
          ret' = [op |-> "Masked::get", bit |-> id, out |-> MaskedGet(values, id)]
    /\ UNCHANGED <<front, checks, values, lines, map>>

CallMaskedSet ==
    /\ Ready
    /\ \E id \in BitArgs(values.w), val \in OptBool :
          /\ values' = MaskedSet(values, id, val)
          /\ ret' = [op |-> "Masked::set", bit |-> id, val |-> val,
                     old |-> values, panic |-> FALSE]
    /\ UNCHANGED <<front, checks, lines, map>>

CallMaskedTruncate ==
    /\ Ready
    /\ \E len \in {0} \cup BitArgs(values.w) :
          /\ values' = MaskedTruncate(values, len)
          /\ ret' = [op |-> "Masked::truncate", len |-> len, old |-> values]
    /\ UNCHANGED <<front, checks, lines, map>>

CallHandleDataFromValues ==
    /\ Ready
    /\ \E len \in LineCounts(values.w) :
          LET r == HandleDataFromValues(len, values) IN
          ret' = [op |-> "GpioHandleData::from_values", len |-> len,
                  panic |-> r.panic, out |-> r.values]
    /\ UNCHANGED <<front, checks, values, lines, map>>

(***************************************************************************)
(* Calls on a line map                                                     *)
(***************************************************************************)
CallLineMapNew ==
    /\ Ready /\ map = NoMap
    /\ \E ls \in MapLists :
          /\ lines' = ls
          /\ map' = LineMapNew(ls)
    /\ UNCHANGED <<front, checks, values, ret>>

CallLineMapGet ==
    /\ Ready /\ map # NoMap
    /\ \E line \in Lookups :
          ret' = [op |-> "LineMap::get", line |-> line,
                  out |-> LineMapGet(map, line)]
    /\ UNCHANGED <<front, checks, values, lines, map>>

(***************************************************************************)
(* Decoding an event record read from a request's descriptor               *)
(***************************************************************************)
CallGpioLineEventAsEvent ==
    /\ Ready /\ map # NoMap
    /\ \E offset \in Lookups, id \in EventIds, ts \in Timestamps :
          LET ev == [offset |-> offset, id |-> id, timestamp_ns |-> ts] IN
          ret' = [op |-> "GpioLineEvent::as_event", gen |-> 2, ev |-> ev,
                  out |-> GpioLineEventAsEvent(ev, map)]
    /\ UNCHANGED <<front, checks, values, lines, map>>

CallMakeEventV2 ==
    /\ Ready /\ map # NoMap
    /\ \E offset \in Lookups, id \in EventIds, ts \in Timestamps :
          LET ev == [offset |-> offset, id |-> id, timestamp_ns |-> ts] IN
          ret' = [op |-> "LineValues::make_event", gen |-> 2, ev |-> ev,
                  out |-> MakeEventV2(LineValuesIndex(lines), ev)]
    /\ UNCHANGED <<front, checks, values, lines, map>>

CallGpioEventDataAsEvent ==
    /\ Ready /\ map # NoMap
    /\ \E line \in 0 .. Len(lines), id \in EventIds, ts \in Timestamps :
          LET ev == [id |-> id, timestamp |-> ts] IN
          ret' = [op |-> "GpioEventData::as_event", gen |-> 1, ev |-> ev,
                  line |-> line, out |-> GpioEventDataAsEvent(ev, line)]
    /\ UNCHANGED <<front, checks, values, lines, map>>

CallMakeEventV1 ==
    /\ Ready /\ map # NoMap
    /\ \E line \in 0 .. Len(lines), id \in EventIds, ts \in Timestamps :
          LET ev == [id |-> id, timestamp |-> ts] IN
          ret' = [op |-> "LineValues::make_event", gen |-> 1, ev |-> ev,
                  line |-> line, out |-> MakeEventV1(line, ev)]
    /\ UNCHANGED <<front, checks, values, lines, map>>

(***************************************************************************)
(* Reading an event under generation 1                                     *)
(***************************************************************************)
CallReadEventV1 ==
    /\ Ready /\ map # NoMap
    /\ \E read \in ReadResults :
          ret' = [op |-> "LineValues::read_event", gen |-> 1, read |-> read,
                  out |-> ReadEventV1(read)]
    /\ UNCHANGED <<front, checks, values, lines, map>>

CallReadEventAsyncV1 ==
    /\ Ready /\ map # NoMap
    /\ ret' = [op |-> "LineValues::read_event_async", gen |-> 1,
               out |-> ReadEventAsyncV1]
    /\ UNCHANGED <<front, checks, values, lines, map>>

CallAsyncStdReadEventV1 ==
    /\ Ready /\ map # NoMap
    /\ ret' = [op |-> "gpiod_async_std::read_event", gen |-> 1,
               out |-> AsyncStdReadEventV1]
    /\ UNCHANGED <<front, checks, values, lines, map>>

(***************************************************************************)
(* The configuration enums as text                                         *)
(***************************************************************************)
CallAsRef ==
    /\ Ready
    /\ \E ty \in EnumTypes : \E x \in Variants(ty) :
          ret' = [op |-> "as_ref", type |-> ty, x |-> x, out |-> AsRefOf(ty, x)]
    /\ UNCHANGED <<front, checks, values, lines, map>>

CallFromStr ==
    /\ Ready
    /\ \E ty \in EnumTypes, s \in Tokens :
          ret' = [op |-> "from_str", type |-> ty, s |-> s,
                  out |-> FromStrOf(ty, s)]
    /\ UNCHANGED <<front, checks, values, lines, map>>

(***************************************************************************)
(* Calls of the request encoders                                           *)
(***************************************************************************)
CallGpioLineRequestNew ==
    /\ Ready
    /\ \E ls \in RequestLists, direction \in Directions, active \in Actives,
          edge \in EdgeOptions, bias \in BiasOptions, drive \in DriveOptions,
          vals \in ValuesOptions, consumer \in Consumers :
          LET r == GpioLineRequestNew(ls, direction, active, edge, bias, drive,
                                      vals, consumer) IN
          /\ lines' = ls
          /\ ret' = [op |-> "GpioLineRequest::new", direction |-> direction,
                     active |-> active, edge |-> edge, bias |-> bias,
                     drive |-> drive, values |-> vals, consumer |-> consumer,
                     status |-> r.status, request |-> r.request]
    /\ UNCHANGED <<front, checks, values, map>>

CallGpioHandleRequestNew ==
    /\ Ready
    /\ \E ls \in RequestLists, direction \in Directions, active \in Actives,
          bias \in BiasOptions, drive \in DriveOptions, consumer \in Consumers :
          LET r == GpioHandleRequestNew(ls, direction, active, bias, drive,
                                        consumer) IN
          /\ lines' = ls
          /\ ret' = [op |-> "GpioHandleRequest::new", direction |-> direction,
                     active |-> active, bias |-> bias, drive |-> drive,
                     consumer |-> consumer,
                     status |-> r.status, request |-> r.request]
    /\ UNCHANGED <<front, checks, values, map>>

(***************************************************************************)
(* Calls of the async-std front end                                        *)
(***************************************************************************)
CallAsyncStdRequestOutput ==
    /\ Ready
    /\ \E ls \in RequestLists, active \in Actives, edge \in Edges,
          bias \in Biases, drive \in Drives, vals \in ValuesOptions,
          label \in Consumers :
          LET a == AsyncStdRequestOutput(ls, active, edge, bias, drive, vals,
                                         label)
              r == RequestLines(a) IN
          /\ lines' = ls
          /\ ret' = [op |-> "async-std Chip::request_output",
                     direction |-> a.direction, active |-> a.active,
                     edge |-> a.edge, bias |-> a.bias, drive |-> a.drive,
                     values |-> a.values, consumer |-> a.consumer,
                     status |-> r.status, request |-> r.request]
    /\ UNCHANGED <<front, checks, values, map>>

CallAsyncStdRequestInput ==
    /\ Ready
    /\ \E ls \in RequestLists, active \in Actives, edge \in Edges,
          bias \in Biases, label \in Consumers :
          LET a == AsyncStdRequestInput(ls, active, edge, bias, label)
              r == RequestLines(a) IN
          /\ lines' = ls
          /\ ret' = [op |-> "async-std Chip::request_input",
                     direction |-> a.direction, active |-> a.active,
                     edge |-> a.edge, bias |-> a.bias, drive |-> a.drive,
                     values |-> a.values, consumer |-> a.consumer,
                     status |-> r.status, request |-> r.request]
    /\ UNCHANGED <<front, checks, values, map>>

(***************************************************************************)
(* Calls of the top-level crate's requests                                 *)
(***************************************************************************)
Generations == {1, 2}

CallTopRequestOutput ==
    /\ Ready
    /\ \E gen \in Generations, ls \in RequestLists, active \in Actives,
          edge \in Edges, bias \in Biases, drive \in Drives,
          label \in Consumers :
          LET r == TopRequestOutput(gen, ls, active, edge, bias, drive, label)
          IN
          /\ lines' = ls
          /\ ret' = [op |-> "gpiod Chip::request_output", gen |-> gen,
                     direction |-> "Output", active |-> active,
                     edge |-> edge, bias |-> bias, drive |-> drive,
                     consumer |-> label,
                     status |-> r.status, request |-> r.request]
    /\ UNCHANGED <<front, checks, values, map>>

CallTopRequestInput ==
    /\ Ready
    /\ \E gen \in Generations, ls \in RequestLists, active \in Actives,
          edge \in Edges, bias \in Biases, label \in Consumers :
          LET r == TopRequestInput(gen, ls, active, edge, bias, label) IN
          /\ lines' = ls
          /\ ret' = [op |-> "gpiod Chip::request_input", gen |-> gen,
                     direction |-> "Input", active |-> active,
                     edge |-> edge, bias |-> bias, drive |-> "None",
                     consumer |-> label,
                     status |-> r.status, request |-> r.request]
    /\ UNCHANGED <<front, checks, values, map>>

(***************************************************************************)
(* Calls of request_lines with Options                                     *)
(***************************************************************************)
\* a builder method called with x, or not called at all (<<>>)
Called(xs) == {<<>>} \cup {<<x>> : x \in xs}

\* the line lists of the calls: short ones, and around the request's limit
OptionLists ==
    {Ascending(n) : n \in {0, 1, MaxLow, LINES_MAX, LINES_MAX + 1}}
    \cup {Descending(MaxLow)}
    \cup {Ascending(LINES_MAX * LineIdSize + 1)}

\* the labels of the calls: none given, a short one, and around the limit
OptionConsumers ==
    Called({Run("c", n) : n \in {1, NAME_SIZE - 1, NAME_SIZE}})

\* Options::input(lines) followed by the builder methods an input has
InputOptions ==
    {LET o0 == OptionsNew(ls)
         o1 == IF c = <<>> THEN o0 ELSE OptionsConsumer(o0, c[1])
         o2 == IF a = <<>> THEN o1 ELSE OptionsActive(o1, a[1])
         o3 == IF b = <<>> THEN o2 ELSE OptionsBias(o2, b[1])
     IN  IF x = <<>> THEN o3 ELSE OptionsEdge(o3, x[1]) :
        ls \in OptionLists, c \in OptionConsumers, a \in Called({"Low"}),
        b \in Called(Biases), x \in Called(Edges)}

\* Options::output(lines) followed by the builder methods an output has
OutputOptions ==
    {LET o0 == OptionsNew(ls)
         o1 == IF c = <<>> THEN o0 ELSE OptionsConsumer(o0, c[1])
         o2 == IF a = <<>> THEN o1 ELSE OptionsActive(o1, a[1])
         o3 == IF b = <<>> THEN o2 ELSE OptionsBias(o2, b[1])
         o4 == IF d = <<>> THEN o3 ELSE OptionsDrive(o3, d[1])
     IN  IF v = <<>> THEN o4 ELSE OptionsValues(o4, v[1][1]) :
        ls \in OptionLists, c \in OptionConsumers, a \in Called({"Low"}),
        b \in Called(Biases), d \in Called(Drives),
        v \in Called(ValuesOptions \ {<<>>})}

CallRequestLines(direction, options) ==
    /\ Ready
    /\ \E gen \in Generations, opts \in options, acquired \in BOOLEAN,
          set \in BOOLEAN :
          LET r == InternalRequestLines(gen, ChipFd, direction, opts,
                                        acquired, set) IN
          /\ lines' = opts.lines
          /\ ret' = [op |-> "request_lines", gen |-> gen,
                     direction |-> direction, options |-> opts,
                     acquired |-> acquired, set |-> set,
                     status |-> r.status, request |-> r.request,
                     ioctls |-> r.ioctls, out |-> r.out]
    /\ UNCHANGED <<front, checks, values, map>>

CallRequestLinesInput == CallRequestLines("Input", InputOptions)

CallRequestLinesOutput == CallRequestLines("Output", OutputOptions)

(***************************************************************************)
(* Calls of line-info decoding                                             *)
(***************************************************************************)
\* the flags of a line-info flag word
InfoFlags ==
    {"USED", "OUTPUT", "ACTIVE_LOW", "EDGE_RISING", "EDGE_FALLING",
     "OPEN_DRAIN", "OPEN_SOURCE", "BIAS_PULL_UP", "BIAS_PULL_DOWN",
     "BIAS_DISABLED"}

\* a buffer of NAME_SIZE bytes that starts with head and is NUL from there
Buffer(head) ==
    [k \in 1 .. NAME_SIZE |-> IF k <= Len(head) THEN head[k] ELSE 0]

\* name buffers that are UTF-8: empty, ASCII, ASCII around a NUL, a full
\* buffer, and sequences of two, three and four bytes
Utf8Buffers ==
    {Buffer(<<>>), Buffer(<<99>>), Buffer(<<99, 0, 99>>),
     [k \in 1 .. NAME_SIZE |-> 99], Buffer(<<195, 169>>),
     Buffer(<<226, 130, 172>>), Buffer(<<240, 159, 152, 128>>)}

\* name buffers that are not UTF-8: a byte that never occurs, a lead byte
\* without its continuation, a lone continuation, an overlong form, a
\* surrogate, and a sequence cut by the end of the buffer
NonUtf8Buffers ==
    {Buffer(<<255>>), Buffer(<<99, 195>>), Buffer(<<169>>),
     Buffer(<<192, 128>>), Buffer(<<237, 160, 128>>),
     [k \in 1 .. NAME_SIZE |-> IF k = NAME_SIZE THEN 195 ELSE 99]}

CallLineInfoAsInfo ==
    /\ Ready
    /\ \E gen \in Generations, flags \in SUBSET InfoFlags,
          name \in Utf8Buffers \cup NonUtf8Buffers,
          consumer \in {Buffer(<<>>), Buffer(<<99>>), Buffer(<<255>>)} :
          LET self == [flags |-> flags, name |-> name, consumer |-> consumer]
              r == LineInfoAsInfo(gen, self) IN
          ret' = [op |-> "GpioLineInfo::as_info", gen |-> gen, self |-> self,
                  status |-> r.status, info |-> r.info]
    /\ UNCHANGED <<front, checks, values, lines, map>>

(***************************************************************************)
(* async-std/src/lib.rs: get_values and set_values of Inputs and Outputs   *)
(* The handle owns the File that closes the descriptor on drop; a call     *)
(* borrows the handle for as long as its future lives; the closure handed  *)
(* to spawn_blocking holds the descriptor's number and an Arc of the       *)
(* LineValues, and a dropped JoinHandle leaves its task to run.            *)
(***************************************************************************)
Calls == 1 .. MaxCalls

\* the handle right after the request: the descriptor number refers to the
\* line request, no call has been made
AsyncStdHandle ==
    [handle |-> "open", fd |-> "line",
     method |-> [c \in Calls |-> "none"],
     future |-> [c \in Calls |-> "none"],
     task |-> [c \in Calls |-> "none"],
     ioctl |-> [c \in Calls |-> "none"]]

\* a future borrows the handle until it has returned or is dropped
Borrowed == \E c \in Calls : front.future[c] \in {"created", "pending"}

\* outputs.get_values() or outputs.set_values(values): the future is made,
\* nothing runs before its first poll
AsyncStdCall(c) ==
    /\ front.handle = "open"
    /\ front.method[c] = "none"
    /\ \E method \in {"get_values", "set_values"} :
          front' = [front EXCEPT !.method[c] = method,
                                 !.future[c] = "created"]
    /\ UNCHANGED <<checks, values, lines, map, ret>>

\* the first poll: fd = self.file.as_raw_fd(), the Arc is cloned and
\* asyncify hands the closure to spawn_blocking
AsyncStdPoll(c) ==
    /\ front.future[c] = "created"
    /\ front' = [front EXCEPT !.future[c] = "pending", !.task[c] = "queued"]
    /\ UNCHANGED <<checks, values, lines, map, ret>>

\* a thread of the blocking pool takes the closure
BlockingStart(c) ==
    /\ front.task[c] = "queued"
    /\ front' = [front EXCEPT !.task[c] = "running"]
    /\ UNCHANGED <<checks, values, lines, map, ret>>

\* the closure runs vals.get_values(fd) or vals.set_values(fd, values): the
\* ioctl acts on whatever the descriptor number refers to by now
BlockingIoctl(c) ==
    /\ front.task[c] = "running"
    /\ front' = [front EXCEPT !.task[c] = "done", !.ioctl[c] = front.fd]
    /\ UNCHANGED <<checks, values, lines, map, ret>>

\* a later poll finds the task done: the call returns
AsyncStdReturn(c) ==
    /\ front.future[c] = "pending"
    /\ front.task[c] = "done"
    /\ front' = [front EXCEPT !.future[c] = "returned"]
    /\ UNCHANGED <<checks, values, lines, map, ret>>

\* the caller drops the future; the JoinHandle it holds detaches its task
AsyncStdDropFuture(c) ==
    /\ front.future[c] \in {"created", "pending"}
    /\ front' = [front EXCEPT !.future[c] = "dropped"]
    /\ UNCHANGED <<checks, values, lines, map, ret>>

\* the caller drops the handle, which no future borrows: File closes the
\* descriptor
AsyncStdDropHandle ==
    /\ front.handle = "open"
    /\ ~Borrowed
    /\ front' = [front EXCEPT !.handle = "dropped", !.fd = "closed"]
    /\ UNCHANGED <<checks, values, lines, map, ret>>

\* the process opens another file and is given the free descriptor number
ReuseFd ==
    /\ front.fd = "closed"
    /\ front' = [front EXCEPT !.fd = "other"]
    /\ UNCHANGED <<checks, values, lines, map, ret>>

(***************************************************************************)
(* src/lib.rs (crate gpiod): LineValues::read_event_async under feature v2 *)
(* LineValues.file owns the descriptor; each call wraps the descriptor's   *)
(* number in a second, async file for the time of the read.                *)
(***************************************************************************)
\* LineValues::new: the File made from the raw descriptor; no call yet
TopLineValues ==
    [handle |-> "open", fd |-> "line", calls |-> 0, future |-> "none",
     wrapper |-> "none", closes |-> <<>>, result |-> "none"]

\* close(fd) by `by`: what the number referred to is recorded, and the
\* number is free afterwards
Close(f, by) ==
    [f EXCEPT !.closes = Append(@, [by |-> by, target |-> f.fd]),
              !.fd = "closed"]

\* inputs.read_event_async(): the future is made and borrows the handle
\* mutably; nothing runs before its first poll
ReadEventAsyncCall ==
    /\ front.handle = "open"
    /\ front.future = "none"
    /\ front.calls < MaxCalls
    /\ front' = [front EXCEPT !.calls = @ + 1, !.future = "created",
                              !.result = "none"]
    /\ UNCHANGED <<checks, values, lines, map, ret>>

\* the first poll: file = File::from_raw_fd(self.file.as_raw_fd()), and the
\* read is pending
ReadEventAsyncPoll ==
    /\ front.future = "created"
    /\ front' = [front EXCEPT !.future = "pending", !.wrapper = "live"]
    /\ UNCHANGED <<checks, values, lines, map, ret>>

\* the read completes with read (<<>> an io error, else the length read):
\* core::mem::forget(file), then check_size and make_event
ReadEventAsyncComplete ==
    /\ front.future = "pending"
    /\ \E read \in ReadResults :
          front' = [front EXCEPT
                       !.future = "none",
                       !.wrapper = "none",
                       !.result = IF read = <<>> THEN "IoError"
                                  ELSE IF CheckSize(read[1], EventDataSize) # "Ok"
                                  THEN "InvalidData"
                                  ELSE "Ok"]
    /\ UNCHANGED <<checks, values, lines, map, ret>>

\* the caller drops the future: before the first poll it holds nothing; with
\* the read pending its local `file` is dropped with it
ReadEventAsyncDropFuture ==
    /\ front.future \in {"created", "pending"}
    /\ front' = [front EXCEPT
                    !.future = "none",
                    !.wrapper = IF front.wrapper = "live" THEN "dropped"
                                ELSE @]
    /\ UNCHANGED <<checks, values, lines, map, ret>>

\* the dropped async file closes its descriptor, at once or when the read
\* it had started lets go of it
WrapperClose ==
    /\ front.wrapper = "dropped"
    /\ front' = [Close(front, "wrapper") EXCEPT !.wrapper = "none"]
    /\ UNCHANGED <<checks, values, lines, map, ret>>

\* the caller drops the handle, which no future borrows: LineValues.file
\* closes the descriptor
TopDropLineValues ==
    /\ front.handle = "open"
    /\ front.future = "none"
    /\ front' = [Close(front, "LineValues") EXCEPT !.handle = "dropped"]
    /\ UNCHANGED <<checks, values, lines, map, ret>>

(***************************************************************************)
(* Specification of the value containers                                   *)
(***************************************************************************)
Init ==
    /\ checks \in BOOLEAN
    /\ values \in UNION {Receivers(w) : w \in Widths}
    /\ lines = <<>>
    /\ map = NoMap
    /\ ret = NoCall
    /\ front = NoFront

Next ==
    \/ CallValuesGet
    \/ CallValuesSet
    \/ CallTopValuesGet
    \/ CallValuesExtend
    \/ CallValuesFromIter
    \/ CallValuesIntoIter
    \/ CallValuesFmt
    \/ CallValuesFromStr
    \/ CallValuesFromInt
    \/ CallValuesIntoInt
    \/ CallTopValuesFromInt
    \/ CallTopValuesIntoInt
    \/ CallMaskedFmt
    \/ CallMaskedFromStr
    \/ CallMaskedFromInt
    \/ CallMaskedIntoInt
    \/ CallMaskedGet
    \/ CallMaskedSet
    \/ CallHandleDataFromValues
    \/ CallMaskedTruncate

Spec == Init /\ [][Next]_vars

(***************************************************************************)
(* Specification of the line map: a map is built, then offsets are looked  *)
(* up in it, events are decoded against it and events are read            *)
(***************************************************************************)
InitLines ==
    /\ checks \in BOOLEAN
    /\ values = Default(MAX)
    /\ lines = <<>>
    /\ map = NoMap
    /\ ret = NoCall
    /\ front = NoFront

NextLineMap ==
    \/ CallLineMapNew
    \/ CallLineMapGet
    \/ CallGpioLineEventAsEvent
    \/ CallMakeEventV2
    \/ CallGpioEventDataAsEvent
    \/ CallMakeEventV1
    \/ CallReadEventV1
    \/ CallReadEventAsyncV1
    \/ CallAsyncStdReadEventV1

SpecLineMap == InitLines /\ [][NextLineMap]_vars

(***************************************************************************)
(* Specification of the request encoders and of the front ends' requests   *)
(***************************************************************************)
NextRequest ==
    \/ CallGpioLineRequestNew
    \/ CallGpioHandleRequestNew
    \/ CallAsyncStdRequestOutput
    \/ CallAsyncStdRequestInput
    \/ CallTopRequestOutput
    \/ CallTopRequestInput

SpecRequest == InitLines /\ [][NextRequest]_vars

(***************************************************************************)
(* Specification of the configuration enums as text                        *)
(***************************************************************************)
NextEnum ==
    \/ CallAsRef
    \/ CallFromStr

SpecEnum == InitLines /\ [][NextEnum]_vars

(***************************************************************************)
(* Specification of request_lines                                          *)
(***************************************************************************)
NextRequestLines ==
    \/ CallRequestLinesInput
    \/ CallRequestLinesOutput

SpecRequestLines == InitLines /\ [][NextRequestLines]_vars

(***************************************************************************)
(* Specification of line-info decoding                                     *)
(***************************************************************************)
NextLineInfo == CallLineInfoAsInfo

SpecLineInfo == InitLines /\ [][NextLineInfo]_vars

(***************************************************************************)
(* Specification of the async-std handles                                  *)
(***************************************************************************)
InitAsyncStd ==
    /\ checks = FALSE
    /\ values = Default(MAX)
    /\ lines = <<>>
    /\ map = NoMap
    /\ ret = NoCall
    /\ front = AsyncStdHandle

NextAsyncStd ==
    \/ \E c \in Calls : AsyncStdCall(c)
    \/ \E c \in Calls : AsyncStdPoll(c)
    \/ \E c \in Calls : BlockingStart(c)
    \/ \E c \in Calls : BlockingIoctl(c)
    \/ \E c \in Calls : AsyncStdReturn(c)
    \/ \E c \in Calls : AsyncStdDropFuture(c)
    \/ AsyncStdDropHandle
    \/ ReuseFd

SpecAsyncStd == InitAsyncStd /\ [][NextAsyncStd]_vars

(***************************************************************************)
(* Specification of read_event_async                                       *)
(***************************************************************************)
InitReadEventAsync ==
    /\ checks = FALSE
    /\ values = Default(MAX)
    /\ lines = <<>>
    /\ map = NoMap
    /\ ret = NoCall
    /\ front = TopLineValues

NextReadEventAsync ==
    \/ ReadEventAsyncCall
    \/ ReadEventAsyncPoll
    \/ ReadEventAsyncComplete
    \/ ReadEventAsyncDropFuture
    \/ WrapperClose
    \/ TopDropLineValues
    \/ ReuseFd

SpecReadEventAsync == InitReadEventAsync /\ [][NextReadEventAsync]_vars

(***************************************************************************)
(* Properties of get and set                                               *)
(***************************************************************************)
IsGet == ret.op \in {"Values::get", "gpiod::Values::get", "Masked::get"}

IsSet == ret.op \in {"Values::set", "Masked::set"}

\* the getter that belongs to the setter that was called
GetAfterSet(self, bit) ==
    IF ret.op = "Values::set" THEN ValuesGet(self, bit) ELSE MaskedGet(self, bit)

\* C3: get(bit) is None when bit >= width or the mask bit is clear, and
\* Some(value bit) otherwise; it never panics, for any bit in 0..=255.
C3_GetIsTotal ==
    IsGet =>
        ret.out = IF ret.bit >= values.w \/ ret.bit \notin values.mask
                  THEN None
                  ELSE Some(ret.bit \in values.bits)

\* C9: below the width, set(b, Some(v)) sets the mask bit and get(b) is
\* Some(v), set(b, None) clears mask and value bit and get(b) is None; at or
\* above the width set leaves bits and mask unchanged.
C9_SetThenGet ==
    IsSet =>
        IF ret.bit >= values.w
        THEN values = ret.old
        ELSE IF ret.op = "Masked::set" /\ ret.val = None
        THEN /\ ret.bit \notin values.mask
             /\ ret.bit \notin values.bits
             /\ GetAfterSet(values, ret.bit) = None
        ELSE /\ ret.bit \in values.mask
             /\ GetAfterSet(values, ret.bit) =
                    IF ret.op = "Masked::set" THEN ret.val ELSE Some(ret.val)

(***************************************************************************)
(* Properties of extend, from_iter and into_iter                           *)
(***************************************************************************)
\* the positions of the TRUE items of a sequence laid out most significant
\* first in the low Len(items) bits
BitsOfSeq(items) == {Len(items) - j : j \in {k \in 1 .. Len(items) : items[k]}}

\* C4: extending a container whose mask is the low k bits with n items gives
\* the mask of the low min(64, k+n) bits and the original k values followed
\* by the first min(n, 64-k) items, without panic, and nothing is shifted out.
C4_ExtendIsCapped ==
    (ret.op = "Values::extend" /\
     ret.old.mask = LowBits(MAX - LeadingZeros(ret.old.mask, MAX))) =>
        LET k == MAX - LeadingZeros(ret.old.mask, MAX)
            n == Len(ret.items)
            m == MinOf(n, MAX - k)
        IN  /\ ~ret.panic
            /\ values.mask = LowBits(MinOf(MAX, k + n))
            /\ values.bits \cap values.mask =
                   {i + m : i \in ret.old.bits \cap ret.old.mask} \cup
                   BitsOfSeq(SubSeq(ret.items, 1, m))

\* C5: for every boolean sequence s of length 0..64, from_iter(s) completes
\* without panic and from_iter(s).into_iter() yields exactly s.
C5_FromIterIntoIter ==
    (ret.op = "Values::from_iter" /\ Len(ret.items) <= MAX) =>
        /\ ~ret.panic
        /\ ValuesIterCollect(ValuesIntoIter(values)) = ret.items

(***************************************************************************)
(* Properties of formatting and parsing                                    *)
(***************************************************************************)
IsFmt == ret.op \in {"Values::fmt", "Masked::fmt"}

\* what the formatter wrote before the value characters
FmtPrefix ==
    IF ret.op = "Values::fmt" \/ ret.alternate THEN <<"0", "b">> ELSE <<>>

\* the value characters the formatter wrote
FmtBody == SubSeq(ret.out, Len(FmtPrefix) + 1, Len(ret.out))

\* index of the highest set bit of x, plus one, and at least 1
Significant(x) == IF x = {} THEN 1 ELSE Max(x) + 1

\* the character that stands for position i of a container
CharAt(self, i) ==
    IF i \notin self.mask THEN "x" ELSE IF i \in self.bits THEN "1" ELSE "0"

\* the formatted text is the prefix and L characters, most significant first
FmtIs(L) ==
    /\ SubSeq(ret.out, 1, Len(FmtPrefix)) = FmtPrefix
    /\ Len(FmtBody) = L
    /\ \A k \in 1 .. L : FmtBody[k] = CharAt(values, L - k)

\* the parser that belongs to the formatter that was called
ParseFormatted ==
    IF ret.op = "Values::fmt" THEN ValuesFromStr(ret.out)
    ELSE MaskedFromStr(ret.out, values.w)

\* a container cut down to its low n positions
LowPart(self, n) ==
    [self EXCEPT !.bits = self.bits \cap LowBits(n),
                 !.mask = self.mask \cap LowBits(n)]

\* C6 as stated: for every pair with no value bit outside its mask, parsing
\* the formatted text gives the pair back, for Values and for Masked<T>.
C6_RoundTrip ==
    (IsFmt /\ values.bits \subseteq values.mask) =>
        ParseFormatted = [status |-> "Ok", self |-> values]

\* C6 amended: Values round-trips; a Masked<T> is formatted up to the highest
\* bit set in both bits and mask, and parsing gives back the container cut
\* down to the formatted positions, which is the container itself exactly
\* when no mask bit lies above them.
C6_RoundTripFormatted ==
    (IsFmt /\ values.bits \subseteq values.mask) =>
        LET L == IF ret.op = "Values::fmt" THEN values.w
                 ELSE Significant(values.bits \cap values.mask)
        IN  /\ ParseFormatted = [status |-> "Ok", self |-> LowPart(values, L)]
            /\ (LowPart(values, L) = values) <=> (values.mask \subseteq LowBits(L))
            /\ ret.op = "Values::fmt" => LowPart(values, L) = values

C6_Witness ==
    /\ ret.op = "Masked::fmt"
    /\ values.bits \subseteq values.mask
    /\ values.bits # {}
    /\ ~(values.mask \subseteq LowBits(Significant(values.bits)))

\* C7 as stated: the formatter writes max(1, highest set mask bit + 1) value
\* characters, '1', '0' or 'x' by position, for Values and for Masked<T>.
C7_FmtSpansMask == IsFmt => FmtIs(Significant(values.mask))

\* C7 amended: Values writes max(1, highest set mask bit + 1) characters;
\* Masked<T> writes max(1, highest bit set in both mask and bits + 1); each
\* character is '1', '0' or 'x' by the mask and value bit of its position.
C7_FmtSignificant ==
    IsFmt =>
        FmtIs(IF ret.op = "Values::fmt" THEN Significant(values.mask)
              ELSE Significant(values.mask \cap values.bits))

C7_Witness ==
    /\ ret.op = "Masked::fmt"
    /\ Len(FmtBody) > 1
    /\ \E k \in 1 .. Len(FmtBody) : FmtBody[k] = "x"
    /\ Len(FmtBody) < Significant(values.mask)

\* C8: a text of n <= 64 characters over '0', '1', 'x' after one optional
\* "0b" parses to the container whose position n-1-k is set by the k-th
\* character and whose positions from n up are clear; a longer text or any
\* other character fails with InvalidInput and gives no value.
C8_ParseByPosition ==
    ret.op = "Values::from_str" =>
        LET s == IF Len(ret.text) >= 2 /\ SubSeq(ret.text, 1, 2) = <<"0", "b">>
                 THEN SubSeq(ret.text, 3, Len(ret.text)) ELSE ret.text
            n == Len(s)
        IN  IF n <= values.w /\ \A k \in 1 .. n : s[k] \in BitChars
            THEN /\ ret.status = "Ok"
                 /\ \A k \in 1 .. n :
                        /\ (n - k \in values.mask) <=> (s[k] \in {"0", "1"})
                        /\ (n - k \in values.bits) <=> (s[k] = "1")
                 /\ values.mask \subseteq LowBits(n)
                 /\ values.bits \subseteq LowBits(n)
            ELSE /\ ret.status = "InvalidInput"
                 /\ values = Default(values.w)

C8_Witness ==
    /\ ret.op = "Values::from_str"
    /\ ret.status = "Ok"
    /\ Len(ret.text) = MAX + 2
    /\ values.mask # {} /\ values.mask # LowBits(MAX)
    /\ values.bits # {}

(***************************************************************************)
(* Properties of the integer conversions                                   *)
(***************************************************************************)
IsFromInt == ret.op \in {"Values::from", "gpiod::Values::from", "Masked::from"}

IsIntoInt == ret.op \in {"Values::into", "gpiod::Values::into", "Masked::into"}

\* the conversion back to an integer of width w that belongs to the
\* conversion from an integer that was called
IntoAfterFrom(self, w) ==
    IF ret.op = "Values::from" THEN ValuesIntoInt(self, w)
    ELSE IF ret.op = "Masked::from" THEN MaskedIntoInt(self)
    ELSE TopValuesIntoInt(self, w)

\* C10: from an integer x of width w: bits = x, mask = 2^w - 1; into an
\* integer of width w: (bits & mask) mod 2^w; integer -> container ->
\* integer of the same width is the identity.
C10_IntConversions ==
    /\ IsFromInt =>
           /\ values.bits = ret.x
           /\ values.mask = LowBits(ret.w)
           /\ IntoAfterFrom(values, ret.w) = ret.x
    /\ IsIntoInt =>
           ret.out = (values.bits \cap values.mask) \cap LowBits(ret.w)

(***************************************************************************)
(* Properties of the request encoders and of the line map                  *)
(***************************************************************************)
IsRequestNew == ret.op \in {"GpioLineRequest::new", "GpioHandleRequest::new"}

\* C1: the encoders return InvalidInput, without panicking, for every list
\* of more than 64 offsets, and reject no list of 0..64 offsets for its
\* length.
C1_TooManyLines ==
    IsRequestNew =>
        /\ Len(lines) > LINES_MAX => ret.status = "InvalidInput"
        /\ (Len(lines) <= LINES_MAX /\ Len(ret.consumer) < NAME_SIZE) =>
               ret.status = "Ok"

\* the indexes (from 0) at which a list holds an offset
IndexesOf(ls, o) == {i - 1 : i \in {k \in 1 .. Len(ls) : ls[k] = o}}

\* C2 as stated: get(offsets[i]) is Ok(i) for every index i, and get(o) is
\* InvalidData for every offset o that is not in the list.
C2_GetIsIndex ==
    ret.op = "LineMap::get" =>
        /\ \A i \in IndexesOf(lines, ret.line) :
               ret.out = [status |-> "Ok", val |-> i]
        /\ IndexesOf(lines, ret.line) = {} => ret.out.status = "InvalidData"

\* C2 amended: get(offsets[i]) is Ok(j) for the last index j that holds
\* offsets[i], so it is Ok(i) for every i whose offset does not occur again
\* later in the list; get(o) is InvalidData for every offset not in the list.
C2_GetIsLastIndex ==
    ret.op = "LineMap::get" =>
        IF IndexesOf(lines, ret.line) = {}
        THEN ret.out.status = "InvalidData"
        ELSE ret.out = [status |-> "Ok", val |-> Max(IndexesOf(lines, ret.line))]

C2_Witness ==
    /\ ret.op = "LineMap::get"
    /\ ret.out.status = "Ok"
    /\ Cardinality(IndexesOf(lines, ret.line)) > 1
    /\ lines[1] # ret.line

(***************************************************************************)
(* Properties of the readers of a container                                *)
(***************************************************************************)
\* C11: into_iter yields 64 - leading_zeros(mask) items, most significant
\* first, and the item of position i is true only if mask bit i and value bit
\* i are both set; from_values(len, v) holds 1 at index i < len exactly when
\* mask bit i and value bit i are both set, and 0 otherwise.
C11_ReadersIgnoreUnmasked ==
    /\ ret.op = "Values::into_iter" =>
           LET n == MAX - LeadingZeros(values.mask, MAX) IN
           /\ Len(ret.out) = n
           /\ \A k \in 1 .. n :
                  ret.out[k] => (n - k \in values.mask /\ n - k \in values.bits)
    /\ ret.op = "GpioHandleData::from_values" =>
           /\ ~ret.panic
           /\ \A k \in 1 .. Len(ret.out) :
                  ret.out[k] = IF k <= ret.len /\ k - 1 \in values.mask
                                  /\ k - 1 \in values.bits
                               THEN 1 ELSE 0

(***************************************************************************)
(* Properties of the consumer label                                        *)
(***************************************************************************)
\* the encoder got as far as encoding the label: the line list was accepted
LabelEncoded == IsRequestNew /\ Len(lines) <= LINES_MAX

\* C12: encoding a label into the consumer field of N = 32 bytes succeeds
\* exactly when the label has at most N - 1 bytes, and the field then holds
\* the label, a NUL byte and zeros; a label of N bytes or more fails with
\* InvalidInput and no request is returned.
C12_ConsumerLabel ==
    LabelEncoded =>
        IF Len(ret.consumer) <= NAME_SIZE - 1
        THEN /\ ret.status = "Ok"
             /\ Len(ret.request) = 1
             /\ ret.request[1].consumer =
                    [k \in 1 .. NAME_SIZE |->
                        IF k <= Len(ret.consumer) THEN ret.consumer[k] ELSE 0]
        ELSE /\ ret.status = "InvalidInput"
             /\ ret.request = <<>>

C12_Witness ==
    /\ LabelEncoded
    /\ Len(ret.consumer) = NAME_SIZE - 1
    /\ ret.status = "Ok"
    /\ ret.request[1].consumer[NAME_SIZE] = 0

(***************************************************************************)
(* Properties of event decoding                                            *)
(***************************************************************************)
IsDecode ==
    ret.op \in {"GpioLineEvent::as_event", "LineValues::make_event",
                "GpioEventData::as_event"}

\* C13: in generation 2 the decoded Event.line is the position of the
\* record's offset in the request's list of offsets; a record whose offset is
\* not in the list fails with InvalidData ("Unknown line offset") whatever
\* its edge code; so every Event has line < number of requested lines.
C13_EventLineResolved ==
    (IsDecode /\ ret.gen = 2) =>
        IF IndexesOf(lines, ret.ev.offset) = {}
        THEN ret.out = ErrEvent("InvalidData", "Unknown line offset")
        ELSE ret.out.status = "Ok" =>
                 /\ ret.out.event[1].line < Len(lines)
                 /\ lines[ret.out.event[1].line + 1] = ret.ev.offset

C13_Witness ==
    /\ IsDecode /\ ret.gen = 2
    /\ ret.out.status = "Ok"
    /\ ret.out.event[1].line > 0
    /\ ret.ev.offset # ret.out.event[1].line

\* what C14 states of a record: an unknown code fails with InvalidData
\* ("Unknown edge") and gives no Event, the rising (falling) code decodes to
\* Rising (Falling) with the time of the record's timestamp
DecodedByCode ==
    LET ts == IF ret.gen = 2 THEN ret.ev.timestamp_ns ELSE ret.ev.timestamp
    IN  IF ret.ev.id \notin {RISING_EDGE, FALLING_EDGE}
        THEN ret.out = ErrEvent("InvalidData", "Unknown edge")
        ELSE /\ ret.out.status = "Ok"
             /\ ret.out.event[1].edge =
                    (IF ret.ev.id = RISING_EDGE THEN "Rising" ELSE "Falling")
             /\ ret.out.event[1].time.secs * NanosPerSec +
                    ret.out.event[1].time.nanos = ts
             /\ ret.out.event[1].time.nanos < NanosPerSec

\* C14 as stated: every record decodes by its event code, in both
\* generations.
C14_EdgeDecoded == IsDecode => DecodedByCode

\* C14 amended: a generation-1 record, and a generation-2 record whose offset
\* is in the request's list, decodes by its event code; a generation-2 record
\* whose offset is not in the list fails with InvalidData ("Unknown line
\* offset") whatever its code.
C14_EdgeDecodedOfRequest ==
    IsDecode =>
        IF ret.gen = 2 /\ IndexesOf(lines, ret.ev.offset) = {}
        THEN ret.out = ErrEvent("InvalidData", "Unknown line offset")
        ELSE DecodedByCode

C14_Witness ==
    /\ ret.op = "GpioEventData::as_event"
    /\ ret.ev.id = FALLING_EDGE
    /\ ret.out.status = "Ok"
    /\ ret.out.event[1].time.secs > 0

IsReadEvent ==
    ret.op \in {"LineValues::read_event", "LineValues::read_event_async",
                "gpiod_async_std::read_event"}

\* C15: under generation 1 read_event, sync or async, reports an error of
\* kind Unsupported: it does not panic and returns no Event.
C15_ReadEventUnsupported ==
    (IsReadEvent /\ ret.gen = 1) =>
        /\ ret.out.status = "Unsupported"
        /\ ret.out.event = <<>>

(***************************************************************************)
(* Properties of the configuration enums as text                           *)
(***************************************************************************)
\* C16: for each enum, from_str(x.as_ref()) is Ok(x) for every variant x;
\* "pull-down" and "pd" parse to Bias::PullDown, "pull-up" and "pu" to
\* Bias::PullUp; every unrecognized token fails with an error.
C16_ParseInvertsFormat ==
    /\ ret.op = "as_ref" => FromStrOf(ret.type, ret.out) = OkVariant(ret.x)
    /\ (ret.op = "from_str" /\ ret.type \in {"Bias", "gpiod::Bias"}) =>
           /\ ret.s \in {"pull-down", "pd"} => ret.out = OkVariant("PullDown")
           /\ ret.s \in {"pull-up", "pu"} => ret.out = OkVariant("PullUp")
    /\ (ret.op = "from_str" /\ ret.s \in ForeignTokens) =>
           /\ ret.out.status # "Ok"
           /\ ret.out.val = <<>>

(***************************************************************************)
(* C17: in the async-std front end Chip::request_input requests the lines  *)
(* with direction Input, no drive and no initial values, and               *)
(* Chip::request_output requests them with direction Output: the direction *)
(* passed on, and the direction bit of the request encoded from it, is the *)
(* one the method names.                                                   *)
(***************************************************************************)
C17_DirectionOfMethod ==
    /\ ret.op = "async-std Chip::request_input" =>
          /\ ret.direction = "Input"
          /\ ret.drive = "None"
          /\ ret.values = <<>>
          /\ ret.status = "Ok" =>
                /\ "INPUT" \in ret.request[1].flags
                /\ "OUTPUT" \notin ret.request[1].flags
    /\ ret.op = "async-std Chip::request_output" =>
          /\ ret.direction = "Output"
          /\ ret.status = "Ok" =>
                /\ "OUTPUT" \in ret.request[1].flags
                /\ "INPUT" \notin ret.request[1].flags

(***************************************************************************)
(* C18: the direction bits of an encoded request depend only on direction  *)
(* and generation: generation 1 sets exactly one of the input and output   *)
(* bits, generation 2 sets the input bit always and the output bit on top  *)
(* of it for direction Output.                                             *)
(***************************************************************************)
DirectionBits == ret.request[1].flags \cap {"INPUT", "OUTPUT"}

C18_DirectionBits ==
    (IsRequestNew /\ ret.status = "Ok") =>
        IF ret.op = "GpioHandleRequest::new"
        THEN DirectionBits = (IF ret.direction = "Input" THEN {"INPUT"}
                              ELSE {"OUTPUT"})
        ELSE DirectionBits = (IF ret.direction = "Input" THEN {"INPUT"}
                              ELSE {"INPUT", "OUTPUT"})

\* C18 as the code has it: both generations set exactly one of the two bits,
\* the input bit for Input and the output bit for Output
C18_DirectionBitsExclusive ==
    (IsRequestNew /\ ret.status = "Ok") =>
        DirectionBits = (IF ret.direction = "Input" THEN {"INPUT"}
                         ELSE {"OUTPUT"})

C18_Witness ==
    /\ ret.op = "GpioLineRequest::new"
    /\ ret.status = "Ok"
    /\ ret.direction = "Output"
    /\ "OUTPUT" \in ret.request[1].flags
    /\ lines # <<>>

(***************************************************************************)
(* C19: edge-detection bits appear in an encoded request only for          *)
(* direction Input: an Output request carries neither the rising nor the   *)
(* falling bit whatever the edge setting, and an Input request carries the *)
(* rising bit iff edge is Rising or Both and the falling bit iff edge is   *)
(* Falling or Both.  Stated of GpioLineRequest::new and of the generation  *)
(* 2 requests of Chip::request_input and Chip::request_output of the       *)
(* top-level crate.                                                        *)
(***************************************************************************)
IsEdgeEncoder ==
    \/ ret.op = "GpioLineRequest::new"
    \/ /\ ret.op \in {"gpiod Chip::request_input",
                      "gpiod Chip::request_output"}
       /\ ret.gen = 2

EdgeBits == ret.request[1].flags \cap GPIO_LINE_FLAG_EDGE_BOTH

EdgeBitsOf(edge) ==
    (IF edge \in {"Rising", "Both"} THEN {"EDGE_RISING"} ELSE {})
    \cup (IF edge \in {"Falling", "Both"} THEN {"EDGE_FALLING"} ELSE {})

C19_EdgeOnlyForInput ==
    (IsEdgeEncoder /\ ret.status = "Ok") =>
        EdgeBits = (IF ret.direction = "Input" THEN EdgeBitsOf(ret.edge)
                    ELSE {})

(***************************************************************************)
(* C20: an encoded Output request carries the open-drain bit iff drive is  *)
(* OpenDrain and the open-source bit iff drive is OpenSource, so PushPull  *)
(* sets neither and the two bits are never set together; an encoded Input  *)
(* request carries neither drive bit whatever the drive value.             *)
(***************************************************************************)
DriveBits == ret.request[1].flags \cap {"OPEN_DRAIN", "OPEN_SOURCE"}

DriveBitsOf(drive) ==
    (IF drive = "OpenDrain" THEN {"OPEN_DRAIN"} ELSE {})
    \cup (IF drive = "OpenSource" THEN {"OPEN_SOURCE"} ELSE {})

C20_DriveOnlyForOutput ==
    (ret.op # "none" /\ ret.status = "Ok") =>
        /\ DriveBits = (IF ret.direction = "Output" THEN DriveBitsOf(ret.drive)
                        ELSE {})
        /\ DriveBits # {"OPEN_DRAIN", "OPEN_SOURCE"}

C20_Witness ==
    /\ ret.op = "GpioHandleRequest::new"
    /\ ret.status = "Ok"
    /\ ret.direction = "Input"
    /\ ret.drive = "OpenDrain"
    /\ "INPUT" \in ret.request[1].flags
    /\ lines # <<>>

(***************************************************************************)
(* C21: every encoded request, for both directions and both generations,   *)
(* carries exactly one of the three bias flags, the one matching the       *)
(* request's bias; a request built from Options on which bias() was never  *)
(* called carries the flag of the default bias, Disable.                   *)
(***************************************************************************)
BiasBits ==
    ret.request[1].flags \cap {"BIAS_DISABLED", "BIAS_PULL_UP", "BIAS_PULL_DOWN"}

BiasBitOf(bias) ==
    IF bias = "PullUp" THEN {"BIAS_PULL_UP"}
    ELSE IF bias = "PullDown" THEN {"BIAS_PULL_DOWN"}
    ELSE {"BIAS_DISABLED"}

C21_OneBiasFlag ==
    (ret.op = "request_lines" /\ ret.request # <<>>) =>
        BiasBits = BiasBitOf(ret.options.bias)

(***************************************************************************)
(* C22: in generation 1, request_lines for direction Output with initial   *)
(* values issues, after the acquisition ioctl has succeeded, exactly one   *)
(* set-values ioctl, which carries those values and is addressed to the    *)
(* newly acquired line-handle descriptor; it issues none when the          *)
(* acquisition fails or when no initial values were given.                 *)
(***************************************************************************)
SetValuesCalls ==
    {i \in 1 .. Len(ret.ioctls) : ret.ioctls[i].call = "gpio_set_line_values"}

\* the values array that carries the initial values v of n lines
CarriedValues(n, v) ==
    [k \in 1 .. LINES_MAX |->
        IF k <= n /\ (k - 1) \in (v.bits \cap v.mask) THEN 1 ELSE 0]

C22_SetValuesAfterAcquire ==
    (ret.op = "request_lines" /\ ret.gen = 1) =>
        IF /\ ret.request # <<>>
           /\ ret.acquired
           /\ ret.direction = "Output"
           /\ ret.options.values # <<>>
        THEN /\ SetValuesCalls = {2}
             /\ ret.ioctls[1].call = "gpio_get_line_handle"
             /\ ret.ioctls[2].fd = LineFd
             /\ ret.ioctls[2].arg =
                   <<CarriedValues(Len(lines), ret.options.values[1])>>
        ELSE SetValuesCalls = {}

(***************************************************************************)
(* C23: in generation 2 the encoded request carries an output-values       *)
(* attribute iff direction is Output and initial values are present: then  *)
(* num_attrs is 1 and the attribute has id OUTPUT_VALUES, the mask of the  *)
(* values as its mask and their bits as its values; in every other case    *)
(* num_attrs is 0 and the attribute area stays zero.                       *)
(***************************************************************************)
C23_OutputValuesAttr ==
    (ret.op = "GpioLineRequest::new" /\ ret.status = "Ok") =>
        IF ret.direction = "Output" /\ ret.values # <<>>
        THEN /\ ret.request[1].num_attrs = 1
             /\ ret.request[1].attr = [id |-> "OUTPUT_VALUES",
                                       mask |-> ret.values[1].mask,
                                       values |-> ret.values[1].bits]
        ELSE /\ ret.request[1].num_attrs = 0
             /\ ret.request[1].attr = DefaultRequest.attr

C23_Witness ==
    /\ ret.op = "GpioLineRequest::new"
    /\ ret.status = "Ok"
    /\ ret.direction = "Output"
    /\ ret.values # <<>>
    /\ ret.request[1].num_attrs = 1
    /\ lines # <<>>

(***************************************************************************)
(* C24: for every offsets list of length n with 0 <= n <= 64 the encoder   *)
(* copies without failing: the request's line count is n, entry i of the   *)
(* array is offsets[i] for every i < n, in the caller's order, and the     *)
(* entries n..63 stay zero.  Stated of GpioHandleRequest::new,             *)
(* GpioLineRequest::new and of Chip::request_input and                     *)
(* Chip::request_output of the top-level crate; the label is one that      *)
(* fits its field.                                                         *)
(***************************************************************************)
IsOffsetsEncoder ==
    ret.op \in {"GpioHandleRequest::new", "GpioLineRequest::new",
                "gpiod Chip::request_input", "gpiod Chip::request_output"}

C24_OffsetsCopied ==
    (/\ IsOffsetsEncoder
     /\ Len(lines) <= LINES_MAX
     /\ Len(ret.consumer) < NAME_SIZE) =>
        /\ ret.status = "Ok"
        /\ Len(ret.request) = 1
        /\ ret.request[1].num_lines = Len(lines)
        /\ ret.request[1].offsets =
               [k \in 1 .. LINES_MAX |-> IF k <= Len(lines) THEN lines[k] ELSE 0]

(***************************************************************************)
(* C25: when encoding a request fails, for too many lines or for a         *)
(* consumer label that is too long, request_lines returns that error       *)
(* without having issued any ioctl and without returning a ValuesInfo or a *)
(* line descriptor, and no request is handed back.                         *)
(***************************************************************************)
EncodingFails ==
    \/ Len(ret.options.lines) > LINES_MAX
    \/ Len(ret.options.consumer) >= NAME_SIZE

C25_NoIoctlOnEncodeError ==
    (ret.op = "request_lines" /\ EncodingFails) =>
        /\ ret.status = "InvalidInput"
        /\ ret.request = <<>>
        /\ ret.ioctls = <<>>
        /\ ret.out = <<>>

(***************************************************************************)
(* C26: line-info decoding is total over all flag words: direction is      *)
(* Output iff the output bit is set, active is Low iff the active-low bit  *)
(* is set, bias is PullUp (PullDown) iff exactly that pull bit is set and  *)
(* Disable otherwise, drive is OpenDrain (OpenSource) iff exactly that bit *)
(* is set and PushPull otherwise, edge in generation 2 follows the         *)
(* (rising, falling) pair and is Disable in generation 1; decoding fails   *)
(* only with InvalidData, and only when the name or the consumer buffer is *)
(* not UTF-8.                                                              *)
(***************************************************************************)
Exactly(flag, other) ==
    flag \in ret.self.flags /\ other \notin ret.self.flags

C26_InfoDecoded ==
    ret.op = "GpioLineInfo::as_info" =>
        IF \/ ret.self.name \in NonUtf8Buffers
           \/ ret.self.consumer \in NonUtf8Buffers
        THEN ret.status = "InvalidData"
        ELSE LET info == ret.info[1] IN
             /\ ret.status = "Ok"
             /\ info.direction = "Output" <=> "OUTPUT" \in ret.self.flags
             /\ info.direction \in {"Input", "Output"}
             /\ info.active = "Low" <=> "ACTIVE_LOW" \in ret.self.flags
             /\ info.active \in {"Low", "High"}
             /\ info.bias = "PullUp" <=> Exactly("BIAS_PULL_UP", "BIAS_PULL_DOWN")
             /\ info.bias = "PullDown" <=> Exactly("BIAS_PULL_DOWN", "BIAS_PULL_UP")
             /\ info.bias \in {"PullUp", "PullDown", "Disable"}
             /\ info.drive = "OpenDrain" <=> Exactly("OPEN_DRAIN", "OPEN_SOURCE")
             /\ info.drive = "OpenSource" <=> Exactly("OPEN_SOURCE", "OPEN_DRAIN")
             /\ info.drive \in {"OpenDrain", "OpenSource", "PushPull"}
             /\ info.edge =
                   (IF ret.gen = 1 THEN "Disable"
                    ELSE IF Exactly("EDGE_RISING", "EDGE_FALLING") THEN "Rising"
                    ELSE IF Exactly("EDGE_FALLING", "EDGE_RISING") THEN "Falling"
                    ELSE IF "EDGE_RISING" \in ret.self.flags THEN "Both"
                    ELSE "Disable")

C26_Witness ==
    /\ ret.op = "GpioLineInfo::as_info"
    /\ ret.status = "Ok"
    /\ {"BIAS_PULL_UP", "BIAS_PULL_DOWN", "OPEN_DRAIN", "OPEN_SOURCE"}
           \subseteq ret.self.flags
    /\ ret.info[1].bias = "Disable"
    /\ ret.info[1].drive = "PushPull"

(***************************************************************************)
(* C27: in the async-std front end a get_values or set_values ioctl that   *)
(* was handed to the blocking pool never executes on a descriptor number   *)
(* after the owning handle has closed it: whatever the interleaving of     *)
(* dropping the future, dropping the handle and running the task, every    *)
(* ioctl that ran acted on the line request.                               *)
(***************************************************************************)
C27_NoIoctlAfterClose ==
    front.handle # "none" =>
        \A c \in Calls : front.ioctl[c] \in {"none", "line"}

(***************************************************************************)
(* C28: read_event_async of the top-level crate never closes the request's *)
(* descriptor: whether the read completes, fails or the future is dropped  *)
(* with the read pending, the temporary async file is forgotten, so the    *)
(* descriptor is closed exactly once, by LineValues.file when LineValues   *)
(* is dropped.                                                             *)
(***************************************************************************)
C28_ClosedOnceByLineValues ==
    front.handle \in {"open", "dropped"} =>
        /\ front.wrapper # "dropped"
        /\ front.closes = IF front.handle = "open" THEN <<>>
                          ELSE <<[by |-> "LineValues", target |-> "line"]>>

(***************************************************************************)
(* C29: for every offsets list of length 1..64, duplicates allowed, and    *)
(* every offset o for which LineMap::get(o) returns Ok(b): b is less than  *)
(* the length of the list and offsets[b] is o; so the line of a decoded    *)
(* event indexes the requested list in bounds, at the offset the event was *)
(* reported for.                                                           *)
(***************************************************************************)
\* b is an index of ls (from 0) that holds o
HoldsAt(ls, b, o) == b < Len(ls) /\ ls[b + 1] = o

C29_GetIsInBounds ==
    (Len(lines) >= 1 /\ Len(lines) <= LINES_MAX) =>
        /\ (ret.op = "LineMap::get" /\ ret.out.status = "Ok") =>
               HoldsAt(lines, ret.out.val, ret.line)
        /\ (ret.op = "GpioLineEvent::as_event" /\ ret.out.status = "Ok") =>
               HoldsAt(lines, ret.out.event[1].line, ret.ev.offset)

C29_Witness ==
    /\ ret.op = "GpioLineEvent::as_event"
    /\ ret.out.status = "Ok"
    /\ Cardinality(IndexesOf(lines, ret.ev.offset)) > 1
    /\ Cardinality({lines[k] : k \in 1 .. Len(lines)}) > 1

(***************************************************************************)
(* C30: Masked<T>::set(b, v) and Values::set(b, v) change only position b: *)
(* for every other position j below the width the mask bit and the value   *)
(* bit at j, and so get(j), are unchanged; truncate(len) makes get(i) None *)
(* for every i >= len and leaves every position i < len unchanged.         *)
(***************************************************************************)
SamePosition(old, new, j) ==
    /\ (j \in new.mask) = (j \in old.mask)
    /\ (j \in new.bits) = (j \in old.bits)
    /\ MaskedGet(new, j) = MaskedGet(old, j)

C30_SetFrame ==
    /\ ret.op \in {"Values::set", "Masked::set"} =>
          \A j \in 0 .. values.w - 1 :
              j # ret.bit => SamePosition(ret.old, values, j)
    /\ ret.op = "Masked::truncate" =>
          \A i \in 0 .. BitIdRange - 1 :
              IF i >= ret.len THEN MaskedGet(values, i) = None
              ELSE i < values.w => SamePosition(ret.old, values, i)


====
